---- MODULE Spec2Model ----
(***************************************************************************)
(* Trajectory prediction and tactical decision support of mx-egg           *)
(* (football-2d): the physics-profile validator, the ball simulators, the  *)
(* predictor wrapper with its configuration slot, and the interception     *)
(* analyzer.                                                               *)
(*                                                                         *)
(* Numbers.  Positions, velocities and coefficients are JavaScript numbers *)
(* (IEEE-754 doubles).  They are modelled in fixed point, in units of      *)
(* 1/Scale, with products truncated toward zero, plus the value NaN, which *)
(* propagates through arithmetic and makes every comparison false.  The    *)
(* elapsed time t of the simulators, whose rounding decides the number of  *)
(* loop iterations, is modelled bit-exactly as an IEEE double (Dbl...).    *)
(***************************************************************************)
EXTENDS Integers, Sequences, FiniteSets, TLC

VARIABLES
  sim,                    \* the locals of the running ball simulator
  store,                  \* localStorage['customAlgorithm'], the configuration slot
  cachedCustomAlgorithm,  \* the wrapper's cached profile
  lastCheck,              \* the wrapper's time of the last slot read (ms)
  now,                    \* Date.now() (ms)
  call,                   \* the prediction the wrapper's last operation returned, if any
  loaded,                 \* the last operation on the cached profile and what it saw
  jsonText,               \* the editor's text
  customAlgorithm,        \* the lab page's active profile
  errors,                 \* the editor's error list
  successMessage,         \* the editor's success message
  validation,             \* the last call of validateAlgorithm and its result
  ia,                     \* the last call of analyzeInterception and its result
  fo,                     \* the last call of findOptimalInterceptPoint and its result
  playerKnowledge,        \* TacticalFootball: the map of the agents' knowledge snapshots
  hostScore,              \* TacticalFootball: the score state of the host
  gameLoop,               \* what the current update callback closed over
  currentCaptureIndex,    \* the capture rotation's index
  backgroundCapturePlayer, \* the agent whose view is rendered off screen
  pov,                    \* the agent the PlayerPOV effect last ran for
  pending,                \* the capture timeouts that have not fired, oldest first
  inFlight,               \* the decision requests that have not resolved
  trace,                  \* what the lanes did so far
  device,                 \* MXCreativeConsole: whether a device is connected
  activeKeys,             \* MXCreativeConsole: the keys that are down
  emitted                 \* MXCreativeConsole: the events dispatched so far

vars == <<sim, store, cachedCustomAlgorithm, lastCheck, now, call, loaded,
          jsonText, customAlgorithm, errors, successMessage, validation, ia, fo,
          playerKnowledge, hostScore, gameLoop, currentCaptureIndex,
          backgroundCapturePlayer, pov, pending, inFlight, trace,
          device, activeKeys, emitted>>

simVars  == <<sim>>
slotVars == <<store, customAlgorithm>>
wrapVars == <<cachedCustomAlgorithm, lastCheck, now, call, loaded>>
labVars  == <<jsonText, errors, successMessage>>
valVars  == <<validation>>
iaVars   == <<ia, fo>>
capVars  == <<currentCaptureIndex, backgroundCapturePlayer, pov, pending>>
tfVars   == <<playerKnowledge, hostScore, gameLoop, capVars, inFlight, trace>>
mxVars   == <<device, activeKeys, emitted>>
hostVars == <<tfVars, mxVars>>

(***************************************************************************)
(* Fixed-point numbers with NaN                                            *)
(***************************************************************************)
\* One unit of the field is Scale fixed-point units (0.0025 resolution).
Scale == 4 * 100

FIELD_WIDTH == 1000
FIELD_HEIGHT == 600

Num(n) == [nan |-> FALSE, v |-> n]
NaN == [nan |-> TRUE, v |-> 0]
Units(n) == Num(n * Scale)

TruncDiv(p, d) == IF p >= 0 THEN p \div d ELSE -((-p) \div d)

\* a * b
Mul(a, b) == IF a.nan \/ b.nan THEN NaN ELSE Num(TruncDiv(a.v * b.v, Scale))
\* a + b
Add(a, b) == IF a.nan \/ b.nan THEN NaN ELSE Num(a.v + b.v)
\* -a
Neg(a) == IF a.nan THEN NaN ELSE Num(-a.v)
\* a < b, a > b, a <= b, a >= b: false as soon as one side is NaN
Lt(a, b) == ~a.nan /\ ~b.nan /\ a.v < b.v
Gt(a, b) == Lt(b, a)
Le(a, b) == ~a.nan /\ ~b.nan /\ a.v <= b.v
Ge(a, b) == Le(b, a)

RECURSIVE IsqrtAux(_, _, _)
IsqrtAux(n, r, b) ==
  IF b = 0 THEN r
  ELSE IF (r + b) * (r + b) <= n THEN IsqrtAux(n, r + b, b \div 2)
       ELSE IsqrtAux(n, r, b \div 2)

\* floor of the square root of n, 0 <= n < 2^30
Isqrt(n) == IsqrtAux(n, 0, 2 ^ 14)

\* Math.sqrt(vx * vx + vy * vy)
Speed(vx, vy) ==
  IF vx.nan \/ vy.nan THEN NaN ELSE Num(Isqrt(vx.v * vx.v + vy.v * vy.v))

\* Math.max(0, Math.min(limit, x)) for a number x that is not NaN
Clamp(x, limit) ==
  Num(IF x.v < 0 THEN 0 ELSE IF x.v > limit * Scale THEN limit * Scale ELSE x.v)

(***************************************************************************)
(* IEEE-754 doubles for the elapsed time: a non-negative double below 16   *)
(* is the integer d[3]*2^40 + d[2]*2^20 + d[1] in units of 2^-56.          *)
(***************************************************************************)
Limb == 2 ^ 20

DblZero == <<0, 0, 0>>

\* number of low bits of the exact sum that do not fit the 53-bit mantissa
DblShift(hi) ==
  IF hi < 2 ^ 13 THEN 0 ELSE IF hi < 2 ^ 14 THEN 1 ELSE IF hi < 2 ^ 15 THEN 2
  ELSE IF hi < 2 ^ 16 THEN 3 ELSE IF hi < 2 ^ 17 THEN 4 ELSE IF hi < 2 ^ 18 THEN 5
  ELSE IF hi < 2 ^ 19 THEN 6 ELSE 7

\* round to nearest, ties to even
DblRound(d) ==
  LET k == DblShift(d[3])
      q == d[1] % (2 ^ k)
      half == (2 ^ k) \div 2
      odd == (d[1] \div (2 ^ k)) % 2 = 1
      up == k > 0 /\ (q > half \/ (q = half /\ odd))
      l0 == d[1] - q + (IF up THEN 2 ^ k ELSE 0)
      l1 == d[2] + (l0 \div Limb)
  IN  <<l0 % Limb, l1 % Limb, d[3] + (l1 \div Limb)>>

\* a + b in double arithmetic
DblAdd(a, b) ==
  LET s0 == a[1] + b[1]
      s1 == a[2] + b[2] + (s0 \div Limb)
      s2 == a[3] + b[3] + (s1 \div Limb)
  IN  DblRound(<<s0 % Limb, s1 % Limb, s2>>)

\* a < b
DblLt(a, b) ==
  \/ a[3] < b[3]
  \/ a[3] = b[3] /\ a[2] < b[2]
  \/ a[3] = b[3] /\ a[2] = b[2] /\ a[1] < b[1]

\* The double a decimal literal of n/Scale parses to (n/Scale below 16):
\* exact for multiples of 1/16, the nearest double for 0.1, 0.2 and 0.3.
DoubleOf(n) ==
  IF n % 25 = 0 THEN <<0, 0, (n \div 25) * (2 ^ 12)>>
  ELSE CASE n = 40 -> <<629146, 629145, 6553>>
         [] n = 80 -> <<209716, 209715, 13107>>
         [] n = 120 -> <<838860, 838860, 19660>>

(***************************************************************************)
(* JSON values and physics profiles (CustomAlgorithmDefinition)            *)
(***************************************************************************)
\* A JSON value read by the code: its typeof-kind and a payload.  A number's
\* payload is its value in fixed point; a string's payload is 0 for the
\* empty string and an identifier of its text otherwise.
Undefined == [k |-> "undefined", v |-> 0]
JNull == [k |-> "null", v |-> 0]
JNum(n) == [k |-> "number", v |-> n]
JStr(i) == [k |-> "string", v |-> i]
JObj == [k |-> "object", v |-> 0]

\* !!j of JavaScript
Truthy(j) ==
  CASE j.k = "undefined" -> FALSE
    [] j.k = "null" -> FALSE
    [] j.k = "number" -> j.v # 0
    [] j.k = "string" -> j.v # 0
    [] OTHER -> TRUE

\* the number an arithmetic operator or a comparison makes of j
ToNumber(j) ==
  CASE j.k = "number" -> Num(j.v)
    [] j.k = "null" -> Num(0)
    [] OTHER -> NaN

\* parameters: absent, or an object whose five fields are JSON values
NoParameters ==
  [present |-> FALSE, friction |-> Undefined, timeStep |-> Undefined,
   maxPredictionTime |-> Undefined, bounceEnergyLoss |-> Undefined,
   stopThreshold |-> Undefined]

Parameters(f, ts, mt, b, st) ==
  [present |-> TRUE, friction |-> f, timeStep |-> ts, maxPredictionTime |-> mt,
   bounceEnergyLoss |-> b, stopThreshold |-> st]

\* customFriction: absent, or {type, coefficients} where coefficients may be
\* missing; the coefficients are numbers in fixed point
NoCustomFriction ==
  [present |-> FALSE, type |-> "none", hasCoefficients |-> FALSE, coefficients |-> <<>>]

CustomFriction(type, cs) ==
  [present |-> TRUE, type |-> type, hasCoefficients |-> TRUE, coefficients |-> cs]

CustomFrictionNoCoefficients(type) ==
  [present |-> TRUE, type |-> type, hasCoefficients |-> FALSE, coefficients |-> <<>>]

\* environment: absent, or {windEnabled, windVx?, windVy?, surfaceFrictionZones?}
NoEnvironment ==
  [present |-> FALSE, windEnabled |-> FALSE, windVx |-> Undefined, windVy |-> Undefined,
   hasZones |-> FALSE, surfaceFrictionZones |-> <<>>]

Environment(we, wx, wy, zones) ==
  [present |-> TRUE, windEnabled |-> we, windVx |-> wx, windVy |-> wy,
   hasZones |-> TRUE, surfaceFrictionZones |-> zones]

Profile(name, version, author, parameters, cf, env, metadata) ==
  [name |-> name, version |-> version, author |-> author, parameters |-> parameters,
   customFriction |-> cf, environment |-> env, metadata |-> metadata]

(***************************************************************************)
(* validateAlgorithm                                                       *)
(***************************************************************************)
ErrName == "Missing or invalid \"name\" field"
ErrVersion == "Missing or invalid \"version\" field"
ErrAuthor == "Missing or invalid \"author\" field"
ErrParameters == "Missing \"parameters\" object"
ErrFriction == "Invalid friction (must be 0-1)"
ErrTimeStep == "Invalid timeStep (must be 0-1)"
ErrMaxPredictionTime == "Invalid maxPredictionTime (must be > 0)"
ErrBounceEnergyLoss == "Invalid bounceEnergyLoss (must be 0-1)"
ErrStopThreshold == "Invalid stopThreshold (must be >= 0)"
ErrMetadata == "Missing \"metadata\" object"

\* errors.push(msg) when cond
PushIf(cond, msg) == IF cond THEN <<msg>> ELSE <<>>

\* !json.f || typeof json.f !== 'string'
BadText(j) == ~Truthy(j) \/ j.k # "string"

BadFriction(p) ==
  p.friction.k # "number" \/ p.friction.v < 0 \/ p.friction.v > 1 * Scale

BadTimeStep(p) ==
  p.timeStep.k # "number" \/ p.timeStep.v <= 0 \/ p.timeStep.v > 1 * Scale

BadMaxPredictionTime(p) ==
  p.maxPredictionTime.k # "number" \/ p.maxPredictionTime.v <= 0

BadBounceEnergyLoss(p) ==
  p.bounceEnergyLoss.k # "number" \/ p.bounceEnergyLoss.v < 0
    \/ p.bounceEnergyLoss.v > 1 * Scale

BadStopThreshold(p) ==
  p.stopThreshold.k # "number" \/ p.stopThreshold.v < 0

\* !json.metadata
BadMetadata(j) == ~Truthy(j)

ParameterErrors(json) ==
  IF ~json.parameters.present THEN <<ErrParameters>>
  ELSE LET p == json.parameters
       IN  PushIf(BadFriction(p), ErrFriction)
             \o PushIf(BadTimeStep(p), ErrTimeStep)
             \o PushIf(BadMaxPredictionTime(p), ErrMaxPredictionTime)
             \o PushIf(BadBounceEnergyLoss(p), ErrBounceEnergyLoss)
             \o PushIf(BadStopThreshold(p), ErrStopThreshold)

validateAlgorithm(json) ==
  LET errs == PushIf(BadText(json.name), ErrName)
                \o PushIf(BadText(json.version), ErrVersion)
                \o PushIf(BadText(json.author), ErrAuthor)
                \o ParameterErrors(json)
                \o PushIf(BadMetadata(json.metadata), ErrMetadata)
  IN  [valid |-> Len(errs) = 0, errors |-> errs]

(***************************************************************************)
(* predictBallTrajectoryCustom                                             *)
(***************************************************************************)
\* coefficients[i] as a number: a missing element is undefined, hence NaN
Coef(cs, i) == IF i < Len(cs) THEN Num(cs[i + 1]) ELSE NaN
\* (coefficients[i] || 0)
CoefOr0(cs, i) == IF i < Len(cs) THEN Num(cs[i + 1]) ELSE Num(0)

RECURSIVE ExpSeries(_, _, _, _)
ExpSeries(z, term, k, acc) ==
  IF term = 0 \/ k > 16 THEN acc
  ELSE ExpSeries(z, (term * z) \div (k * Scale), k + 1, acc + term)

\* Math.exp(a) in fixed point, by the power series of exp(|a|)
Exp(a) ==
  IF a.nan THEN NaN
  ELSE LET e == ExpSeries(IF a.v < 0 THEN -a.v ELSE a.v, Scale, 1, 0)
       IN  IF a.v < 0 THEN Num((Scale * Scale) \div e) ELSE Num(e)

\* calculateCustomFriction(velocity, config), config.coefficients being a list
calculateCustomFriction(velocity, config) ==
  LET cs == config.coefficients
  IN  CASE config.type = "linear" ->
             Add(Coef(cs, 0), Mul(CoefOr0(cs, 1), velocity))
        [] config.type = "quadratic" ->
             Add(Coef(cs, 0), Mul(Mul(CoefOr0(cs, 1), velocity), velocity))
        [] config.type = "exponential" ->
             Mul(Coef(cs, 0), Exp(Mul(Neg(CoefOr0(cs, 1)), velocity)))
        [] config.type = "piecewise" ->
             IF Lt(velocity, Coef(cs, 3)) THEN Coef(cs, 0)
             ELSE IF Lt(velocity, Coef(cs, 4)) THEN Coef(cs, 1)
             ELSE Coef(cs, 2)
        [] OTHER -> Coef(cs, 0)

\* reading coefficients[...] of a customFriction without coefficients throws
CustomFrictionThrows(config) == config.present /\ ~config.hasCoefficients

RECURSIVE ZoneMultiplier(_, _, _)
ZoneMultiplier(x, y, zones) ==
  IF Len(zones) = 0 THEN Num(Scale)
  ELSE LET zone == Head(zones)
       IN  IF /\ Ge(x, Num(zone.x1)) /\ Le(x, Num(zone.x2))
              /\ Ge(y, Num(zone.y1)) /\ Le(y, Num(zone.y2))
           THEN Num(zone.frictionMultiplier)
           ELSE ZoneMultiplier(x, y, Tail(zones))

\* getSurfaceFrictionMultiplier(x, y, environment?.surfaceFrictionZones)
getSurfaceFrictionMultiplier(x, y, env) ==
  IF ~env.present \/ ~env.hasZones THEN Num(Scale)
  ELSE ZoneMultiplier(x, y, env.surfaceFrictionZones)

NoProfile ==
  Profile(Undefined, Undefined, Undefined, NoParameters, NoCustomFriction,
          NoEnvironment, Undefined)

\* The local variables of a running simulator; pc is "loop" at the test of
\* the while condition, "exit" after the break, "thrown" after an exception.
LoopState(fn, algo, ballX, ballY, ballVx, ballVy) ==
  [pc |-> "loop", fn |-> fn, algo |-> algo,
   ballX |-> ballX, ballY |-> ballY, ballVx |-> ballVx, ballVy |-> ballVy,
   x |-> ballX, y |-> ballY, vx |-> ballVx, vy |-> ballVy, t |-> DblZero,
   path |-> <<>>, willExitField |-> FALSE]

\* x < 0 || x > limit
Outside(x, limit) == Lt(x, Num(0)) \/ Gt(x, Units(limit))

\* the factor of a bounce that keeps the share 1 - bounceEnergyLoss
BounceFactorComplement(loss) == Neg(Add(Units(1), Neg(loss)))

\* the factor of the reflected velocity component: vx *= -bounceEnergyLoss
BounceFactor(loss) == Neg(loss)

\* the loop without its break
NeverStops(speed, threshold) == FALSE

\* the speed test that ends the custom loop
StopTest(speed, threshold) == Lt(speed, threshold)

\* t < maxTime
TimeLeft(t, maxTime) == DblLt(t, maxTime)

\* The first half of an iteration: friction, wind and the update of the
\* position, before the walls are looked at.
Moved(s) ==
  LET p == s.algo.parameters
      cf == s.algo.customFriction
      env == s.algo.environment
      dt == ToNumber(p.timeStep)
      speed == Speed(s.vx, s.vy)
      coeff == IF cf.present THEN calculateCustomFriction(speed, cf)
               ELSE ToNumber(p.friction)
      frictionCoeff == Mul(coeff, getSurfaceFrictionMultiplier(s.x, s.y, env))
      vx1 == Mul(s.vx, frictionCoeff)
      vy1 == Mul(s.vy, frictionCoeff)
      wind == /\ env.present /\ env.windEnabled
              /\ env.windVx.k # "undefined" /\ env.windVy.k # "undefined"
      vx2 == IF wind THEN Add(vx1, Mul(ToNumber(env.windVx), dt)) ELSE vx1
      vy2 == IF wind THEN Add(vy1, Mul(ToNumber(env.windVy), dt)) ELSE vy1
  IN  [vx |-> vx2, vy |-> vy2, x |-> Add(s.x, vx2), y |-> Add(s.y, vy2)]

\* One iteration of the while loop of predictBallTrajectoryCustom.
CustomIteration(s) ==
  LET p == s.algo.parameters
      cf == s.algo.customFriction
      speed == Speed(s.vx, s.vy)
      vx2 == Moved(s).vx
      vy2 == Moved(s).vy
      x1 == Moved(s).x
      y1 == Moved(s).y
      bx == Outside(x1, FIELD_WIDTH)
      by == Outside(y1, FIELD_HEIGHT)
      loss == ToNumber(p.bounceEnergyLoss)
      vx3 == IF bx THEN Mul(vx2, BounceFactor(loss)) ELSE vx2
      vy3 == IF by THEN Mul(vy2, BounceFactor(loss)) ELSE vy2
      x2 == IF bx THEN Clamp(x1, FIELD_WIDTH) ELSE x1
      y2 == IF by THEN Clamp(y1, FIELD_HEIGHT) ELSE y1
      ex == bx /\ (Le(x2, Num(0)) \/ Ge(x2, Units(FIELD_WIDTH)))
      ey == by /\ (Le(y2, Num(0)) \/ Ge(y2, Units(FIELD_HEIGHT)))
      t1 == DblAdd(s.t, DoubleOf(p.timeStep.v))
      point == [x |-> x2, y |-> y2, t |-> t1, velocity |-> [vx |-> vx3, vy |-> vy3]]
  IN  IF CustomFrictionThrows(cf) THEN [s EXCEPT !.pc = "thrown"]
      ELSE [s EXCEPT !.x = x2, !.y = y2, !.vx = vx3, !.vy = vy3, !.t = t1,
                     !.path = Append(s.path, point),
                     !.willExitField = s.willExitField \/ ex \/ ey,
                     !.pc = IF StopTest(speed, ToNumber(p.stopThreshold))
                            THEN "exit" ELSE "loop"]

\* the while condition of the custom loop
CustomContinues(s) ==
  s.pc = "loop" /\ TimeLeft(s.t, DoubleOf(s.algo.parameters.maxPredictionTime.v))

\* the first recorded point in place of the last
FirstPoint(s) ==
  IF Len(s.path) > 0 THEN s.path[1]
  ELSE [x |-> s.ballX, y |-> s.ballY, t |-> DblZero,
        velocity |-> [vx |-> s.ballVx, vy |-> s.ballVy]]

\* const lastPoint = path[path.length - 1] || { x: ballX, y: ballY, t: 0 }
LastPoint(s) ==
  IF Len(s.path) > 0 THEN s.path[Len(s.path)]
  ELSE [x |-> s.ballX, y |-> s.ballY, t |-> DblZero,
        velocity |-> [vx |-> s.ballVx, vy |-> s.ballVy]]

\* the BallTrajectory the custom simulator returns
CustomResult(s) ==
  [currentPosition |-> [x |-> s.ballX, y |-> s.ballY],
   predictedPath |-> s.path,
   landingPosition |-> [x |-> LastPoint(s).x, y |-> LastPoint(s).y],
   timeToStop |-> LastPoint(s).t,
   willExitField |-> s.willExitField]

\* entry of predictBallTrajectoryCustom: parameters.timeStep of a profile
\* without parameters throws
CustomEntry(ballX, ballY, ballVx, ballVy, algo) ==
  IF ~algo.parameters.present
  THEN [LoopState("custom", algo, ballX, ballY, ballVx, ballVy) EXCEPT !.pc = "thrown"]
  ELSE LoopState("custom", algo, ballX, ballY, ballVx, ballVy)

\* the while loop; the singleton set binds the locals after an iteration to
\* one value
RECURSIVE CustomLoop(_)
CustomLoop(s) ==
  IF CustomContinues(s)
  THEN CHOOSE r \in { CustomLoop(n) : n \in {CustomIteration(s)} } : TRUE
  ELSE s

\* predictBallTrajectoryCustom run to its end: the final locals
predictBallTrajectoryCustom(ballX, ballY, ballVx, ballVy, algo) ==
  CustomLoop(CustomEntry(ballX, ballY, ballVx, ballVy, algo))

(***************************************************************************)
(* predictBallTrajectory (the default predictor)                           *)
(***************************************************************************)
\* a friction that adds one percent of speed on every step
GainingFriction == Scale + Scale \div 100

\* 0.94, 0.8 and 0.5 in fixed point
BASE_FRICTION == 376
DEFAULT_BOUNCE == 320
DEFAULT_STOP == 200
\* predictionTime = 3.0 and timeStep = 0.1, the defaults every caller uses
DefaultPredictionTime == DoubleOf(3 * Scale)
DefaultTimeStep == DoubleOf(Scale \div 10)

DefaultIteration(s) ==
  LET vx1 == Mul(s.vx, Num(BASE_FRICTION))
      vy1 == Mul(s.vy, Num(BASE_FRICTION))
      x1 == Add(s.x, vx1)
      y1 == Add(s.y, vy1)
      bx == Outside(x1, FIELD_WIDTH)
      by == Outside(y1, FIELD_HEIGHT)
      vx2 == IF bx THEN Mul(vx1, Neg(Num(DEFAULT_BOUNCE))) ELSE vx1
      vy2 == IF by THEN Mul(vy1, Neg(Num(DEFAULT_BOUNCE))) ELSE vy1
      x2 == IF bx THEN Clamp(x1, FIELD_WIDTH) ELSE x1
      y2 == IF by THEN Clamp(y1, FIELD_HEIGHT) ELSE y1
      t1 == DblAdd(s.t, DefaultTimeStep)
      point == [x |-> x2, y |-> y2, t |-> t1, velocity |-> [vx |-> vx2, vy |-> vy2]]
  IN  [s EXCEPT !.x = x2, !.y = y2, !.vx = vx2, !.vy = vy2, !.t = t1,
                !.path = Append(s.path, point),
                !.pc = IF Lt(Speed(vx2, vy2), Num(DEFAULT_STOP)) THEN "exit" ELSE "loop"]

DefaultContinues(s) == s.pc = "loop" /\ DblLt(s.t, DefaultPredictionTime)

\* the BallTrajectory the default predictor returns
DefaultResult(s) ==
  [currentPosition |-> [x |-> s.ballX, y |-> s.ballY],
   predictedPath |-> s.path,
   landingPosition |-> [x |-> LastPoint(s).x, y |-> LastPoint(s).y],
   timeToStop |-> LastPoint(s).t,
   willExitField |-> Outside(s.x, FIELD_WIDTH) \/ Outside(s.y, FIELD_HEIGHT)]

RECURSIVE DefaultLoop(_)
DefaultLoop(s) ==
  IF DefaultContinues(s)
  THEN CHOOSE r \in { DefaultLoop(n) : n \in {DefaultIteration(s)} } : TRUE
  ELSE s

predictBallTrajectoryDefault(ballX, ballY, ballVx, ballVy) ==
  DefaultResult(DefaultLoop(LoopState("default", NoProfile, ballX, ballY, ballVx, ballVy)))

(***************************************************************************)
(* Texts: the editor's text and the content of the configuration slot      *)
(***************************************************************************)
NullAlgorithm == [isNull |-> TRUE, algo |-> NoProfile]
SomeAlgorithm(p) == [isNull |-> FALSE, algo |-> p]

\* JSON.stringify(v) of an object v that JSON.parse produced
JSONStringify(v) == [kind |-> "json", value |-> v]
\* the text "null"
NullText == [kind |-> "null", value |-> NoProfile]
\* a text that is not JSON
Garbage == [kind |-> "garbage", value |-> NoProfile]
\* localStorage.getItem of a key that is not set
NoItem == [kind |-> "none", value |-> NoProfile]

\* JSON.parse(text): throws on a text that is not JSON
JSONParse(text) ==
  [throws |-> text.kind \notin {"json", "null"},
   isNull |-> text.kind = "null",
   value |-> text.value]

(***************************************************************************)
(* AlgorithmEditor.handleSubmit and the lab page's handleAlgorithmSubmit   *)
(***************************************************************************)
ErrParse == "JSON Parse Error"

\* handleSubmit without the test of validation.valid: whatever parses is
\* passed on
SubmitOutcomeUnchecked(text) ==
  LET parsed == JSONParse(text)
  IN  IF parsed.throws \/ parsed.isNull
      THEN [errors |-> <<ErrParse>>, accepted |-> FALSE]
      ELSE [errors |-> validateAlgorithm(parsed.value).errors, accepted |-> TRUE]

\* What handleSubmit finds for the editor's text: the error list it shows
\* and whether it calls onAlgorithmSubmit.  validateAlgorithm(null) throws a
\* TypeError, which the same catch turns into a parse error.
SubmitOutcome(text) ==
  LET parsed == JSONParse(text)
  IN  IF parsed.throws \/ parsed.isNull
      THEN [errors |-> <<ErrParse>>, accepted |-> FALSE]
      ELSE LET v == validateAlgorithm(parsed.value)
           IN  IF ~v.valid THEN [errors |-> v.errors, accepted |-> FALSE]
               ELSE [errors |-> <<>>, accepted |-> TRUE]

NoMessage == [shown |-> FALSE, name |-> Undefined]
SuccessMessage(name) == [shown |-> TRUE, name |-> name]

(***************************************************************************)
(* The predictor wrapper (trajectoryPredictorWrapper)                      *)
(***************************************************************************)
CHECK_INTERVAL == 1000

\* what the wrapper caches when it reads the slot
ReadSlot(stored) ==
  IF stored.kind = "none" THEN NullAlgorithm
  ELSE LET parsed == JSONParse(stored)
       IN  IF parsed.throws \/ parsed.isNull THEN NullAlgorithm
           ELSE SomeAlgorithm(parsed.value)

\* the test of the polling interval left out: every call reads the slot
AlwaysStale(t, last) == TRUE

\* now - lastCheck > CHECK_INTERVAL
SlotIsStale(t, last) == t - last > CHECK_INTERVAL

\* getCustomAlgorithm(): the new lastCheck and cachedCustomAlgorithm (which
\* it returns), in a browser (typeof window !== 'undefined'); read tells
\* whether it called localStorage.getItem
getCustomAlgorithm(stored, cached, last, t) ==
  IF SlotIsStale(t, last)
  THEN [lastCheck |-> t, cached |-> ReadSlot(stored), read |-> TRUE]
  ELSE [lastCheck |-> last, cached |-> cached, read |-> FALSE]

\* customAlgo !== null
IsActive(customAlgo) == ~customAlgo.isNull

\* the text 'Default Physics' (names are numbered; this one is 4)
DefaultPhysicsName == JStr(4)

\* customAlgo ? customAlgo.name : 'Default Physics'
ActiveName(customAlgo) ==
  IF customAlgo.isNull THEN DefaultPhysicsName ELSE customAlgo.algo.name

\* whether any recorded point of a trajectory holds a NaN
HasNaN(path) ==
  \E i \in 1..Len(path) :
    path[i].x.nan \/ path[i].y.nan \/ path[i].velocity.vx.nan \/ path[i].velocity.vy.nan

\* predictBallTrajectory of the wrapper, given what getCustomAlgorithm
\* returned: the custom simulator inside try/catch, else the default one
\* the result of a call that returned nothing
NoTrajectory == CustomResult(LoopState("none", NoProfile, Num(0), Num(0), Num(0), Num(0)))

\* the outcome of a call that went to the default predictor
DefaultOutcome(ballX, ballY, ballVx, ballVy, threw) ==
  [outcome |-> "returned", usedCustom |-> FALSE, customThrew |-> threw,
   customNaN |-> FALSE,
   result |-> predictBallTrajectoryDefault(ballX, ballY, ballVx, ballVy)]

\* the try block without its catch: the exception reaches the caller
TryCustomUncaught(run, ballX, ballY, ballVx, ballVy) ==
  IF run.pc = "thrown"
  THEN [outcome |-> "thrown", usedCustom |-> FALSE, customThrew |-> TRUE,
        customNaN |-> FALSE, result |-> NoTrajectory]
  ELSE [outcome |-> "returned", usedCustom |-> TRUE, customThrew |-> FALSE,
        customNaN |-> HasNaN(run.path), result |-> CustomResult(run)]

\* try { return predictBallTrajectoryCustom(...) } catch { fall through },
\* where run is the custom simulator's run
TryCustom(run, ballX, ballY, ballVx, ballVy) ==
  IF run.pc = "thrown" THEN DefaultOutcome(ballX, ballY, ballVx, ballVy, TRUE)
  ELSE [outcome |-> "returned", usedCustom |-> TRUE, customThrew |-> FALSE,
        customNaN |-> HasNaN(run.path), result |-> CustomResult(run)]

predictBallTrajectory(ballX, ballY, ballVx, ballVy, customAlgo) ==
  IF customAlgo.isNull THEN DefaultOutcome(ballX, ballY, ballVx, ballVy, FALSE)
  ELSE CHOOSE r \in
         { TryCustom(run, ballX, ballY, ballVx, ballVy) :
             run \in {predictBallTrajectoryCustom(ballX, ballY, ballVx, ballVy,
                                                  customAlgo.algo)} } : TRUE

(***************************************************************************)
(* Inputs of the simulators                                                *)
(***************************************************************************)
\* initial ball states inside the field: <<x, y, vx, vy>> in field units;
\* <<100, 300, 2, 1>> is the first test case of runBenchmark
Balls ==
  { <<500, 300, 10, 0>>, <<998, 300, 8, 0>>, <<2, 2, -8, -6>>,
    <<100, 596, 6, 8>>, <<500, 300, 0, 0>>, <<1000, 600, 3, 3>>,
    <<100, 300, 2, 1>> }

\* customFriction objects a profile may carry (none of them is validated)
CustomFrictions ==
  { NoCustomFriction,
    CustomFriction("linear", <<360, -4>>),
    CustomFriction("quadratic", <<360, -1>>),
    CustomFriction("exponential", <<400, 40>>),
    CustomFriction("piecewise", <<380, 360, 320, 800, 2000>>),
    CustomFriction("piecewise", <<380, 360>>),
    CustomFrictionNoCoefficients("linear") }

\* environment objects a profile may carry (none of them is validated)
Environments ==
  { NoEnvironment,
    Environment(TRUE, JNum(400), JNum(-200), <<>>),
    Environment(FALSE, Undefined, Undefined,
                <<[x1 |-> 0, y1 |-> 0, x2 |-> 200 * Scale, y2 |-> 600 * Scale,
                   frictionMultiplier |-> 440]>>) }

\* candidate profiles of the simulators: every combination of these values
SimCandidates ==
  { Profile(JStr(1), JStr(1), JStr(1),
            Parameters(JNum(f), JNum(ts), JNum(mt), JNum(320), JNum(st)),
            cf, env, JObj) :
      f \in {200, 400}, ts \in {40, 200, 400}, mt \in {400, 800},
      st \in {0, 160}, cf \in CustomFrictions, env \in Environments }

\* Scenario A: friction 0.5, timeStep 1, stopThreshold 0.4, and a
\* maxPredictionTime (8) that does not cut the run short
ScenarioA ==
  Profile(JStr(1), JStr(1), JStr(1),
          Parameters(JNum(Scale \div 2), JNum(Scale), JNum(8 * Scale), JNum(320),
                     JNum(160)),
          NoCustomFriction, NoEnvironment, JObj)

\* the profile loadDefaultAlgorithm writes into the editor (3 is "Default
\* Physics Model"); runBenchmark's baseline has the same parameters
DefaultAlgorithm ==
  Profile(JStr(3), JStr(1), JStr(1),
          Parameters(JNum(376), JNum(40), JNum(3 * Scale), JNum(320), JNum(200)),
          NoCustomFriction, NoEnvironment, JObj)

\* the profiles validateAlgorithm accepts
SimProfiles ==
  { c \in SimCandidates \cup {ScenarioA, DefaultAlgorithm} : validateAlgorithm(c).valid }

(***************************************************************************)
(* analyzeInterception                                                     *)
(***************************************************************************)
INTERCEPT_RADIUS == 15

\* Math.sqrt(Math.pow(ax - bx, 2) + Math.pow(ay - by, 2))
Distance(ax, ay, bx, by) == Speed(Add(ax, Neg(bx)), Add(ay, Neg(by)))

\* a / b; a division by zero gives Infinity or NaN, and neither is <= a
\* finite number, which is all the code asks of the quotient
Div(a, b) ==
  IF a.nan \/ b.nan \/ b.v = 0 THEN NaN ELSE Num(TruncDiv(a.v * Scale, b.v))

\* Math.max(0, x)
Max0(x) == IF x.nan THEN NaN ELSE IF x.v < 0 THEN Num(0) ELSE x

\* a value that may be null
Null == [isNull |-> TRUE, v |-> Num(0)]
Some(n) == [isNull |-> FALSE, v |-> n]
NullPoint == [isNull |-> TRUE, x |-> Num(0), y |-> Num(0)]
SomePoint(x, y) == [isNull |-> FALSE, x |-> x, y |-> y]

\* the test with < in place of <=
CanReachStrict(requiredSpeed, playerMaxSpeed) == Lt(requiredSpeed, playerMaxSpeed)

\* requiredSpeed <= playerMaxSpeed
CanReach(requiredSpeed, playerMaxSpeed) == Le(requiredSpeed, playerMaxSpeed)

\* the loop without the test of the distance
AnyDistance(distance) == ~distance.nan

\* distance > INTERCEPT_RADIUS
BeyondRadius(distance) == Gt(distance, Units(INTERCEPT_RADIUS))

\* the result for a trajectory point the player can reach
InterceptAt(point, requiredSpeed, playerMaxSpeed) ==
  [isPossible |-> TRUE,
   interceptPoint |-> SomePoint(point.x, point.y),
   timeToReach |-> Some(point.t),
   requiredSpeed |-> Some(requiredSpeed),
   confidence |-> Max0(Add(Units(1), Neg(Div(requiredSpeed, playerMaxSpeed))))]

\* the result when the player is already at the ball
InterceptNow(currentPosition) ==
  [isPossible |-> TRUE,
   interceptPoint |-> SomePoint(currentPosition.x, currentPosition.y),
   timeToReach |-> Some(Num(0)),
   requiredSpeed |-> Some(Num(0)),
   confidence |-> Units(1)]

NoIntercept ==
  [isPossible |-> FALSE, interceptPoint |-> NullPoint, timeToReach |-> Null,
   requiredSpeed |-> Null, confidence |-> Num(0)]

\* what follows the for loop: the check of the current position
AfterScan(playerX, playerY, ballTrajectory) ==
  LET cur == ballTrajectory.currentPosition
      currentDistance == Distance(cur.x, cur.y, playerX, playerY)
  IN  IF Le(currentDistance, Units(INTERCEPT_RADIUS)) THEN InterceptNow(cur)
      ELSE NoIntercept

\* the for loop over predictedPath from its i-th point on, and what follows
RECURSIVE ScanPath(_, _, _, _, _)
ScanPath(i, playerX, playerY, playerMaxSpeed, ballTrajectory) ==
  IF i > Len(ballTrajectory.predictedPath)
  THEN AfterScan(playerX, playerY, ballTrajectory)
  ELSE LET point == ballTrajectory.predictedPath[i]
           distance == Distance(point.x, point.y, playerX, playerY)
           requiredSpeed == Div(distance, point.t)
       IN  IF CanReach(requiredSpeed, playerMaxSpeed) /\ BeyondRadius(distance)
           THEN InterceptAt(point, requiredSpeed, playerMaxSpeed)
           ELSE ScanPath(i + 1, playerX, playerY, playerMaxSpeed, ballTrajectory)

analyzeInterception(playerX, playerY, playerMaxSpeed, ballTrajectory) ==
  ScanPath(1, playerX, playerY, playerMaxSpeed, ballTrajectory)

(***************************************************************************)
(* findOptimalInterceptPoint                                               *)
(***************************************************************************)
\* A score (1 / timeAvailable) * (1 / (distance + 1)) is kept as its
\* reciprocal timeAvailable * (distance + 1), in units of 1/Scale^2; the
\* initial bestScore is -Infinity.
MinusInfinity == [minusInf |-> TRUE, recip |-> 0]

Score(timeAvailable, distance) ==
  [minusInf |-> FALSE, recip |-> timeAvailable.v * (distance.v + Scale)]

\* score > bestScore
ScoreGt(score, bestScore) ==
  ~score.minusInf /\ (bestScore.minusInf \/ score.recip < bestScore.recip)

\* the for loop over predictedPath from its i-th point on, with the locals
\* best = [point, score], and the return of bestPoint
RECURSIVE ScanBest(_, _, _, _, _, _)
ScanBest(i, best, playerX, playerY, playerMaxSpeed, ballTrajectory) ==
  IF i > Len(ballTrajectory.predictedPath) THEN best.point
  ELSE LET point == ballTrajectory.predictedPath[i]
           distance == Distance(point.x, point.y, playerX, playerY)
           requiredSpeed == Div(distance, point.t)
           score == Score(point.t, distance)
       IN  IF CanReach(requiredSpeed, playerMaxSpeed) /\ ScoreGt(score, best.score)
           THEN ScanBest(i + 1, [point |-> SomePoint(point.x, point.y), score |-> score],
                         playerX, playerY, playerMaxSpeed, ballTrajectory)
           ELSE ScanBest(i + 1, best, playerX, playerY, playerMaxSpeed, ballTrajectory)

findOptimalInterceptPoint(playerX, playerY, playerMaxSpeed, ballTrajectory) ==
  ScanBest(1, [point |-> NullPoint, score |-> MinusInfinity],
           playerX, playerY, playerMaxSpeed, ballTrajectory)

(***************************************************************************)
(* TacticalFootball: the agents' knowledge snapshots                       *)
(***************************************************************************)
TEAM_SIZE == 4

\* the number of screenshots a snapshot keeps ("Keep only last 10")
KeepLast == 10

\* initTeamPositions(isRed): the ids `r${i}` / `b${i}` and the roles
initTeamPositions(isRed) ==
  [i \in 1..TEAM_SIZE |->
     [id |-> <<IF isRed THEN "r" ELSE "b", i - 1>>,
      role |-> IF i = 1 THEN "GK" ELSE "FIELD"]]

\* [...gameState.current.red, ...gameState.current.blue]
allPlayers == initTeamPositions(TRUE) \o initTeamPositions(FALSE)

\* [...renderRed, ...renderBlue].map(p => p.id)
allPlayerIds == [i \in 1..Len(allPlayers) |-> allPlayers[i].id]

PlayerIds == { allPlayerIds[i] : i \in 1..Len(allPlayerIds) }

\* useState<string | null>(null)
NoPlayer == <<"none", 0>>

\* player.id.startsWith('r') ? 'red' : 'blue'
TeamOf(id) == IF id[1] = "r" THEN "red" ELSE "blue"

\* role === 'GK' ? 'Goalkeeper' : 'Balanced'
InitialStrategy(role) == IF role = "GK" THEN "Goalkeeper" ELSE "Balanced"

\* allPlayers.filter(p => p.id !== player.id && p.id.startsWith(player.id[0]))
Teammates(player) ==
  LET Mate(p) == p.id # player.id /\ p.id[1] = player.id[1]
  IN  SelectSeq(allPlayers, Mate)

\* the snapshot resetMatch creates for a player (the constant texts of the
\* game knowledge left out)
NewKnowledge(player) ==
  [playerId |-> player.id,
   team |-> TeamOf(player.id),
   currentScore |-> [red |-> 0, blue |-> 0],
   fovScreenshots |-> <<>>,
   myCurrentStrategy |-> InitialStrategy(player.role),
   teammateStrategies |->
     [i \in 1..Len(Teammates(player)) |->
        [playerId |-> Teammates(player)[i].id,
         strategy |-> InitialStrategy(Teammates(player)[i].role)]],
   myRole |-> player.role]

\* the fields of a snapshot that only the design describes: the predictions
\* of the per-tick lane (the tick that wrote them) and the append-only log
\* of decisions
DesignFields == [ballPrediction |-> 0, strategyThoughts |-> <<>>]

\* the snapshot of a player at the start of the match
Snapshot(player) == NewKnowledge(player) @@ DesignFields

\* new Map()
EmptyMap == [id \in {} |-> 0]

\* the screenshot canvas.toDataURL returns: it may throw; otherwise a text
\* of some length, the n-th that was encoded
Thrown == [throws |-> TRUE, length |-> 0, n |-> 0]
DataURL(length, n) == [throws |-> FALSE, length |-> length, n |-> n]

\* screenshot && screenshot.length > 1000, with no check of the length
AnyScreenshot(screenshot) == ~screenshot.throws

\* screenshot && screenshot.length > 1000, inside the try block
IsScreenshot(screenshot) == ~screenshot.throws /\ screenshot.length > 1000

\* [...knowledge.fovScreenshots, screenshot] with no shift
KeepAll(fovScreenshots, screenshot) == Append(fovScreenshots, screenshot)

\* [...knowledge.fovScreenshots, screenshot], shifted when longer than 10
NewScreenshots(fovScreenshots, screenshot) ==
  LET newScreenshots == Append(fovScreenshots, screenshot)
  IN  IF Len(newScreenshots) > KeepLast THEN Tail(newScreenshots)
      ELSE newScreenshots

\* the updater without the test of knowledge: an entry is made for a player
\* that has none
AddAlways(prev, playerId, screenshot) ==
  [id \in DOMAIN prev \cup {playerId} |->
     IF id # playerId THEN prev[id]
     ELSE IF id \in DOMAIN prev
     THEN [prev[id] EXCEPT !.fovScreenshots = NewScreenshots(@, screenshot)]
     ELSE [playerId |-> playerId, fovScreenshots |-> <<screenshot>>]]

\* the updater of handleBackgroundCanvasReady: prev => updated
AddScreenshot(prev, playerId, screenshot) ==
  IF playerId \in DOMAIN prev
  THEN [prev EXCEPT ![playerId].fovScreenshots =
                      NewScreenshots(prev[playerId].fovScreenshots, screenshot)]
  ELSE prev

\* the rotation advancing by two
SkipIndex(index) == (index + 2) % Len(allPlayerIds)

\* (currentCaptureIndex.current + 1) % allPlayerIds.length
NextIndex(index) == (index + 1) % Len(allPlayerIds)

(***************************************************************************)
(* The strategy route (POST) and the decision lane                         *)
(***************************************************************************)
\* the values of a field of the model's output: a text, a value that is
\* not a text, and no field at all
Text(label) == [k |-> "string", v |-> label]
NotText == [k |-> "number", v |-> ""]
Absent == [k |-> "undefined", v |-> ""]

\* NextResponse.json(body, { status }): the fields of the body the client
\* reads; JSON leaves out a field that is undefined
Response(status, selectedStrategy, reasoning, timestamp) ==
  [status |-> status, selectedStrategy |-> selectedStrategy,
   reasoning |-> reasoning, timestamp |-> timestamp]

\* an error response: { error: ... } with a status
ErrorResponse(status) == Response(status, Absent, Absent, 0)

\* What happens to a request on its way, as the route sees it:
\*   body         whether request.json() gives the request
\*   key          whether OPENROUTER_API_KEY is configured
\*   fetched      whether fetch returns (it rejects on a network error)
\*   upstream     the status of the upstream response
\*   content      data.choices[0]?.message?.content: "none" when the field
\*                is missing or empty, "text" a text that is not JSON,
\*                "null" the text null, "json" an object
\*   selectedStrategy, reasoning   the fields of that object
Outcome(body, key, fetched, upstream, content, selectedStrategy, reasoning) ==
  [body |-> body, key |-> key, fetched |-> fetched, upstream |-> upstream,
   content |-> content, selectedStrategy |-> selectedStrategy,
   reasoning |-> reasoning]

\* a request that was not sent
NoOutcome == Outcome(FALSE, FALSE, FALSE, 0, "none", Absent, Absent)

\* POST of the route that answers 200 whatever the model's output is
POSTUnchecked(o, t) == Response(200, o.selectedStrategy, o.reasoning, t)

\* POST(request): the response of the route at time t
POST(o, t) ==
  IF ~o.body THEN ErrorResponse(500)
  ELSE IF ~o.key THEN ErrorResponse(500)
  ELSE IF ~o.fetched THEN ErrorResponse(500)
  ELSE IF o.upstream \notin 200..299 THEN ErrorResponse(o.upstream)
  ELSE IF o.content = "none" THEN ErrorResponse(500)
  ELSE IF o.content = "text" THEN ErrorResponse(500)
  ELSE IF o.content = "null" THEN ErrorResponse(500)
  ELSE Response(200, o.selectedStrategy, o.reasoning, t)

\* response.ok
ResponseOk(response) == response.status \in 200..299

\* a decision result the lane folds in: an OK response that names a
\* strategy
WellFormed(response) ==
  ResponseOk(response) /\ response.selectedStrategy.k = "string"

\* every entry of teammateStrategies replaced
NotifyAll(teammateStrategies, playerId, strategy) ==
  [i \in 1..Len(teammateStrategies) |-> [teammateStrategies[i] EXCEPT !.strategy = strategy]]

\* the entry {playerId, strategy} of a team-mate replaced
NotifyTeammate(teammateStrategies, playerId, strategy) ==
  [i \in 1..Len(teammateStrategies) |->
     IF teammateStrategies[i].playerId = playerId
     THEN [teammateStrategies[i] EXCEPT !.strategy = strategy]
     ELSE teammateStrategies[i]]

\* a decision result for playerId folded into the snapshots with the log
\* started anew
FoldLastOnly(prev, playerId, response) ==
  IF playerId \notin DOMAIN prev THEN prev
  ELSE [id \in DOMAIN prev |->
          IF id = playerId
          THEN [prev[id] EXCEPT
                  !.myCurrentStrategy = response.selectedStrategy.v,
                  !.strategyThoughts =
                     <<[timestamp |-> response.timestamp,
                        previousStrategy |-> prev[id].myCurrentStrategy,
                        selectedStrategy |-> response.selectedStrategy.v,
                        reasoning |-> response.reasoning.v]>>]
          ELSE IF prev[id].team = prev[playerId].team
          THEN [prev[id] EXCEPT
                  !.teammateStrategies =
                     NotifyTeammate(@, playerId, response.selectedStrategy.v)]
          ELSE prev[id]]

\* a decision result for playerId folded into the snapshots: the agent's
\* strategy is replaced, the decision appended to its log, and the copies
\* its team-mates hold are updated; an agent that is not in the map is
\* passed over
Fold(prev, playerId, response) ==
  IF playerId \notin DOMAIN prev THEN prev
  ELSE [id \in DOMAIN prev |->
          IF id = playerId
          THEN [prev[id] EXCEPT
                  !.myCurrentStrategy = response.selectedStrategy.v,
                  !.strategyThoughts =
                     Append(@, [timestamp |-> response.timestamp,
                                previousStrategy |-> prev[id].myCurrentStrategy,
                                selectedStrategy |-> response.selectedStrategy.v,
                                reasoning |-> response.reasoning.v])]
          ELSE IF prev[id].team = prev[playerId].team
          THEN [prev[id] EXCEPT
                  !.teammateStrategies =
                     NotifyTeammate(@, playerId, response.selectedStrategy.v)]
          ELSE prev[id]]

\* a response folded in whether it is well-formed or not
ResolvedUnchecked(prev, playerId, response) == Fold(prev, playerId, response)

\* the snapshots after a response for playerId has arrived
Resolved(prev, playerId, response) ==
  IF WellFormed(response) THEN Fold(prev, playerId, response) ELSE prev

\* the per-tick lane: the predictions of every snapshot replaced by those
\* of tick t
Predicted(prev, t) == [id \in DOMAIN prev |-> [prev[id] EXCEPT !.ballPrediction = t]]


(***************************************************************************)
(* Initial values of the parts of the state                                *)
(***************************************************************************)
\* the moment the page is loaded (Date.now() is far above CHECK_INTERVAL)
StartNow == 2 * CHECK_INTERVAL

NoCall ==
  [made |-> FALSE, ball |-> <<0, 0, 0, 0>>, algo |-> NullAlgorithm,
   outcome |-> "none", usedCustom |-> FALSE, customThrew |-> FALSE,
   customNaN |-> FALSE, result |-> NoTrajectory]

\* SAMPLE_ALGORITHM; names are numbered (2 is "Enhanced Friction Model").
\* Its second coefficient 0.001 is below the resolution of the fixed point;
\* the sample is validated and stored here, never simulated.
SAMPLE_ALGORITHM ==
  Profile(JStr(2), JStr(1), JStr(1),
          Parameters(JNum(368), JNum(20), JNum(4 * Scale), JNum(300), JNum(120)),
          CustomFriction("quadratic", <<368, 0>>),
          Environment(FALSE, Undefined, Undefined,
                      <<[x1 |-> 0, y1 |-> 0, x2 |-> 200 * Scale, y2 |-> 600 * Scale,
                         frictionMultiplier |-> 440]>>),
          JObj)

\* the slot is empty and the page holds no profile
SlotInit == store = NoItem /\ customAlgorithm = NullAlgorithm

\* no operation on the cached profile yet: fn is the operation, slot and
\* cached what the slot and cachedCustomAlgorithm held when it began, read
\* whether it read the slot, returned what getCustomAlgorithm returned,
\* cleared whether clearCustomAlgorithm was the operation before (or this
\* one), dropped the cached profile which that clearCustomAlgorithm replaced,
\* and reads the times of all slot reads so far
NoLoad ==
  [fn |-> "none", slot |-> NoItem, cached |-> NullAlgorithm,
   read |-> FALSE, returned |-> NullAlgorithm,
   active |-> FALSE, name |-> DefaultPhysicsName,
   cleared |-> FALSE, dropped |-> NullAlgorithm, reads |-> <<>>]

\* the record of an operation fn that got `got` from getCustomAlgorithm
Loaded(fn, got, stored, cached, t, last) ==
  [fn |-> fn, slot |-> stored, cached |-> cached,
   read |-> got.read, returned |-> got.cached,
   active |-> IsActive(got.cached), name |-> ActiveName(got.cached),
   cleared |-> last.fn = "clearCustomAlgorithm",
   dropped |-> IF last.fn = "clearCustomAlgorithm" THEN last.dropped ELSE NullAlgorithm,
   reads |-> IF got.read THEN Append(last.reads, t) ELSE last.reads]

WrapInit ==
  /\ cachedCustomAlgorithm = NullAlgorithm
  /\ lastCheck = 0
  /\ now = StartNow
  /\ call = NoCall
  /\ loaded = NoLoad

\* useState(JSON.stringify(SAMPLE_ALGORITHM)), useState([]), useState('')
LabInit ==
  /\ jsonText = JSONStringify(SAMPLE_ALGORITHM)
  /\ errors = <<>>
  /\ successMessage = NoMessage

\* validateAlgorithm has not been applied
NoValidation ==
  [called |-> FALSE, json |-> NoProfile, result |-> [valid |-> FALSE, errors |-> <<>>]]

ValidationInit == validation = NoValidation

\* analyzeInterception has not been applied
NoAnalysis ==
  [called |-> FALSE, playerX |-> Num(0), playerY |-> Num(0),
   playerMaxSpeed |-> Num(0),
   ballTrajectory |-> [currentPosition |-> [x |-> Num(0), y |-> Num(0)],
                       predictedPath |-> <<>>],
   result |-> NoIntercept]

\* findOptimalInterceptPoint has not been applied
NoOptimal ==
  [called |-> FALSE, playerX |-> Num(0), playerY |-> Num(0),
   playerMaxSpeed |-> Num(0),
   ballTrajectory |-> [currentPosition |-> [x |-> Num(0), y |-> Num(0)],
                       predictedPath |-> <<>>],
   result |-> NullPoint]

InterceptionInit == ia = NoAnalysis /\ fo = NoOptimal

\* useState({ red: 0, blue: 0 })
NoScore == [red |-> 0, blue |-> 0]

\* the update callback of the first render: the score and the size of
\* lockedPlayersUI it closed over, the sizes of lockedPlayersUI and
\* lockedPlayersRef, and gameState.current.matchState
FirstGameLoop ==
  [score |-> NoScore, lockedSize |-> 0, lockedUI |-> 0, lockedRef |-> 0,
   matchState |-> "PLAYING"]

\* nothing has happened: whether the mount effect has run, the number of
\* timer ticks and the agents they selected, the screenshots that were
\* accepted (how many, and for each agent which), the number of events that
\* were out of step (a tick before the last capture was done, a capture
\* that failed), the numbers of prediction ticks, of decision requests and
\* of their resolutions, the number of goals and the team of the last one,
\* the number of input reports, and the last step
NoTrace ==
  [mounted |-> FALSE, ticks |-> 0, selected |-> <<>>, shots |-> 0,
   arrived |-> [id \in PlayerIds |-> <<>>], irregular |-> 0, failed |-> 0,
   predicted |-> 0, dispatched |-> 0, resolved |-> 0,
   goals |-> 0, scorer |-> "none", reports |-> 0,
   last |-> [op |-> "none", playerId |-> NoPlayer, screenshot |-> Thrown,
             outcome |-> NoOutcome, response |-> ErrorResponse(0), early |-> FALSE,
             report |-> [reportId |-> 0, data |-> <<>>]]]

CaptureInit ==
  /\ currentCaptureIndex = 0
  /\ backgroundCapturePlayer = NoPlayer
  /\ pov = NoPlayer
  /\ pending = <<>>

TacticalInit ==
  /\ playerKnowledge = EmptyMap
  /\ hostScore = NoScore
  /\ gameLoop = FirstGameLoop
  /\ CaptureInit
  /\ inFlight = {}
  /\ trace = NoTrace

\* this.device = null, this.activeKeys = new Set(); nothing dispatched
ConsoleInit ==
  /\ device = FALSE
  /\ activeKeys = <<>>
  /\ emitted = <<>>

HostInit == TacticalInit /\ ConsoleInit

(***************************************************************************)
(* The simulators, one loop iteration per step                             *)
(***************************************************************************)
SimIdle ==
  [LoopState("none", NoProfile, Num(0), Num(0), Num(0), Num(0)) EXCEPT !.pc = "idle"]

Init ==
  /\ sim = SimIdle
  /\ SlotInit /\ WrapInit /\ LabInit /\ ValidationInit /\ InterceptionInit
  /\ HostInit

CallCustom ==
  /\ sim.pc = "idle"
  /\ \E algo \in SimProfiles, b \in Balls :
       sim' = CustomEntry(Units(b[1]), Units(b[2]), Units(b[3]), Units(b[4]), algo)
  /\ UNCHANGED <<slotVars, wrapVars, labVars, valVars, iaVars, hostVars>>

StepCustom ==
  /\ sim.fn = "custom" /\ CustomContinues(sim)
  /\ sim' = CustomIteration(sim)
  /\ UNCHANGED <<slotVars, wrapVars, labVars, valVars, iaVars, hostVars>>

ReturnCustom ==
  /\ sim.fn = "custom" /\ sim.pc \in {"loop", "exit"} /\ ~CustomContinues(sim)
  /\ sim' = [sim EXCEPT !.pc = "returned"]
  /\ UNCHANGED <<slotVars, wrapVars, labVars, valVars, iaVars, hostVars>>

CallDefault ==
  /\ sim.pc = "idle"
  /\ \E b \in Balls :
       sim' = LoopState("default", NoProfile,
                        Units(b[1]), Units(b[2]), Units(b[3]), Units(b[4]))
  /\ UNCHANGED <<slotVars, wrapVars, labVars, valVars, iaVars, hostVars>>

StepDefault ==
  /\ sim.fn = "default" /\ DefaultContinues(sim)
  /\ sim' = DefaultIteration(sim)
  /\ UNCHANGED <<slotVars, wrapVars, labVars, valVars, iaVars, hostVars>>

ReturnDefault ==
  /\ sim.fn = "default" /\ sim.pc \in {"loop", "exit"} /\ ~DefaultContinues(sim)
  /\ sim' = [sim EXCEPT !.pc = "returned"]
  /\ UNCHANGED <<slotVars, wrapVars, labVars, valVars, iaVars, hostVars>>

\* the caller has taken the result (or caught the exception)
SimDone ==
  /\ sim.pc \in {"returned", "thrown"}
  /\ sim' = SimIdle
  /\ UNCHANGED <<slotVars, wrapVars, labVars, valVars, iaVars, hostVars>>

SimNext ==
  \/ CallCustom \/ StepCustom \/ ReturnCustom
  \/ CallDefault \/ StepDefault \/ ReturnDefault
  \/ SimDone

SpecSim == Init /\ [][SimNext]_vars

(***************************************************************************)
(* The predictor wrapper and the configuration slot                        *)
(***************************************************************************)
\* largest clock value, in milliseconds
MaxNow == 3100

\* milliseconds that pass between two events: CHECK_INTERVAL exactly, which
\* does not exceed the polling interval, and one more, which does
TickSteps == {CHECK_INTERVAL, CHECK_INTERVAL + 1}

WrapCandidates ==
  { Profile(JStr(1), JStr(1), JStr(1),
            Parameters(JNum(400), JNum(200), JNum(400), JNum(320), JNum(160)),
            cf, NoEnvironment, JObj) :
      cf \in { NoCustomFriction,
               CustomFriction("piecewise", <<380, 360>>),
               CustomFrictionNoCoefficients("linear") } }

\* the profiles that can reach the slot: handleSubmit passes on only what
\* validateAlgorithm accepts
WrapProfiles == { c \in WrapCandidates : validateAlgorithm(c).valid }

WrapBalls == { <<500, 300, 10, 0>>, <<998, 300, 8, 0>>, <<500, 300, 0, 0>> }

\* handleAlgorithmSubmit(algorithm) of the lab page
handleAlgorithmSubmit ==
  /\ \E algorithm \in WrapProfiles :
       /\ customAlgorithm' = SomeAlgorithm(algorithm)
       /\ store' = JSONStringify(algorithm)
  /\ UNCHANGED <<simVars, wrapVars, labVars, valVars, iaVars, hostVars>>

\* time passes
Tick ==
  /\ \E d \in TickSteps :
       /\ now + d <= MaxNow
       /\ now' = now + d
  /\ UNCHANGED <<simVars, slotVars, cachedCustomAlgorithm, lastCheck, call,
                 loaded, labVars, valVars, iaVars, hostVars>>

\* a caller asks the wrapper for a prediction
Predict ==
  /\ \E b \in WrapBalls :
       \E got \in {getCustomAlgorithm(store, cachedCustomAlgorithm, lastCheck, now)} :
         \E r \in {predictBallTrajectory(Units(b[1]), Units(b[2]), Units(b[3]),
                                         Units(b[4]), got.cached)} :
           /\ cachedCustomAlgorithm' = got.cached
           /\ lastCheck' = got.lastCheck
           /\ loaded' = Loaded("predictBallTrajectory", got, store, cachedCustomAlgorithm,
                            now, loaded)
           /\ call' = [made |-> TRUE, ball |-> b, algo |-> got.cached,
                       outcome |-> r.outcome, usedCustom |-> r.usedCustom,
                       customThrew |-> r.customThrew, customNaN |-> r.customNaN,
                       result |-> r.result]
  /\ UNCHANGED <<simVars, slotVars, now, labVars, valVars, iaVars, hostVars>>

\* isCustomAlgorithmActive()
isCustomAlgorithmActive ==
  /\ \E got \in {getCustomAlgorithm(store, cachedCustomAlgorithm, lastCheck, now)} :
       /\ cachedCustomAlgorithm' = got.cached
       /\ lastCheck' = got.lastCheck
       /\ loaded' = Loaded("isCustomAlgorithmActive", got, store, cachedCustomAlgorithm,
                            now, loaded)
  /\ call' = NoCall
  /\ UNCHANGED <<simVars, slotVars, now, labVars, valVars, iaVars, hostVars>>

\* getActiveAlgorithmName()
getActiveAlgorithmName ==
  /\ \E got \in {getCustomAlgorithm(store, cachedCustomAlgorithm, lastCheck, now)} :
       /\ cachedCustomAlgorithm' = got.cached
       /\ lastCheck' = got.lastCheck
       /\ loaded' = Loaded("getActiveAlgorithmName", got, store, cachedCustomAlgorithm,
                            now, loaded)
  /\ call' = NoCall
  /\ UNCHANGED <<simVars, slotVars, now, labVars, valVars, iaVars, hostVars>>

\* clearCustomAlgorithm() that removes the item and keeps the cached profile
clearSlotOnly ==
  /\ store' = NoItem
  /\ loaded' = [NoLoad EXCEPT !.fn = "clearCustomAlgorithm", !.cleared = TRUE,
                               !.slot = store, !.cached = cachedCustomAlgorithm,
                               !.reads = loaded.reads]
  /\ call' = NoCall
  /\ UNCHANGED <<simVars, customAlgorithm, cachedCustomAlgorithm, lastCheck, now,
                 labVars, valVars, iaVars, hostVars>>

\* clearCustomAlgorithm()
clearCustomAlgorithm ==
  /\ store' = NoItem
  /\ cachedCustomAlgorithm' = NullAlgorithm
  /\ loaded' = [NoLoad EXCEPT !.fn = "clearCustomAlgorithm", !.cleared = TRUE,
                               !.slot = store, !.cached = cachedCustomAlgorithm,
                               !.dropped = cachedCustomAlgorithm,
                               !.reads = loaded.reads]
  /\ call' = NoCall
  /\ UNCHANGED <<simVars, customAlgorithm, lastCheck, now, labVars, valVars, iaVars, hostVars>>

WrapNext ==
  \/ handleAlgorithmSubmit
  \/ Tick
  \/ Predict
  \/ isCustomAlgorithmActive
  \/ getActiveAlgorithmName
  \/ clearCustomAlgorithm

\* what the slot holds when the page is loaded: localStorage outlives the
\* page, so the slot holds whatever was stored under the key before
StoredBefore ==
  {NoItem, Garbage, NullText} \cup
  { JSONStringify(c) : c \in { p \in WrapProfiles : p.customFriction = NoCustomFriction } }

WrapStart ==
  /\ sim = SimIdle
  /\ store \in StoredBefore /\ customAlgorithm = NullAlgorithm
  /\ WrapInit /\ LabInit /\ ValidationInit /\ InterceptionInit
  /\ HostInit

SpecWrap == WrapStart /\ [][WrapNext]_vars

(***************************************************************************)
(* The algorithm editor of the lab page                                    *)
(***************************************************************************)
\* a profile with every field in order, and variants of it
GoodParameters == Parameters(JNum(400), JNum(200), JNum(400), JNum(320), JNum(160))

LabCandidates ==
  { SAMPLE_ALGORITHM, DefaultAlgorithm,
    Profile(JStr(1), JStr(1), JStr(1), GoodParameters,
            NoCustomFriction, NoEnvironment, JObj),
    Profile(JStr(1), JStr(1), JStr(1), GoodParameters,
            CustomFriction("piecewise", <<380, 360>>), NoEnvironment, JObj),
    Profile(JStr(1), JStr(1), JStr(1), GoodParameters,
            NoCustomFriction, NoEnvironment, JNum(7)),
    Profile(JStr(1), JStr(1), JStr(1), GoodParameters,
            NoCustomFriction, NoEnvironment, Undefined),
    Profile(JStr(1), JStr(1), JStr(1),
            Parameters(JNum(600), JNum(0), JNum(400), JNum(320), JNum(160)),
            NoCustomFriction, NoEnvironment, JObj),
    Profile(JStr(0), JStr(1), Undefined, GoodParameters,
            NoCustomFriction, NoEnvironment, JObj),
    Profile(JStr(1), JStr(1), JStr(1), NoParameters,
            NoCustomFriction, NoEnvironment, JObj),
    Profile(JNum(7), JStr(1), JStr(1), NoParameters,
            NoCustomFriction, NoEnvironment, JNull) }

\* what the user can type into the editor
LabTexts == {Garbage, NullText} \cup { JSONStringify(c) : c \in LabCandidates }

\* onChange of the textarea
SetJsonText ==
  /\ \E text \in LabTexts : jsonText' = text
  /\ UNCHANGED <<simVars, slotVars, wrapVars, errors, successMessage, valVars, iaVars, hostVars>>

\* handleSubmit, with the page's handleAlgorithmSubmit as onAlgorithmSubmit
\* (localStorage.setItem is taken to succeed)
handleSubmit ==
  /\ LET outcome == SubmitOutcome(jsonText)
         parsed == JSONParse(jsonText).value
     IN  /\ errors' = outcome.errors
         /\ IF outcome.accepted
            THEN /\ customAlgorithm' = SomeAlgorithm(parsed)
                 /\ store' = JSONStringify(parsed)
                 /\ successMessage' = SuccessMessage(parsed.name)
            ELSE /\ successMessage' = NoMessage
                 /\ UNCHANGED slotVars
  /\ UNCHANGED <<simVars, wrapVars, jsonText, valVars, iaVars, hostVars>>

loadSampleTemplate ==
  /\ jsonText' = JSONStringify(SAMPLE_ALGORITHM)
  /\ errors' = <<>>
  /\ successMessage' = NoMessage
  /\ UNCHANGED <<simVars, slotVars, wrapVars, valVars, iaVars, hostVars>>

loadDefaultAlgorithm ==
  /\ jsonText' = JSONStringify(DefaultAlgorithm)
  /\ errors' = <<>>
  /\ successMessage' = NoMessage
  /\ UNCHANGED <<simVars, slotVars, wrapVars, valVars, iaVars, hostVars>>

LabNext ==
  \/ SetJsonText
  \/ handleSubmit
  \/ loadSampleTemplate
  \/ loadDefaultAlgorithm

SpecLab == Init /\ [][LabNext]_vars

(***************************************************************************)
(* validateAlgorithm applied to candidate profiles                         *)
(***************************************************************************)
\* values a text field of a candidate may hold: missing, empty, a text, a
\* number
TextValues == {Undefined, JStr(0), JStr(1), JNum(7)}

\* parameters of a candidate: missing, or every combination of values at,
\* inside and outside the limits of the rules
ValidateParameters ==
  {NoParameters} \cup
  { Parameters(f, ts, mt, b, st) :
      f \in {JNum(0), JNum(Scale), JNum(Scale + Scale \div 2), JNum(-1), JStr(1)},
      ts \in {JNum(0), JNum(1), JNum(Scale), JNum(Scale + 1), Undefined},
      mt \in {JNum(0), JNum(1), JStr(1)},
      b \in {JNum(0), JNum(Scale), JNum(Scale + 1), Undefined},
      st \in {JNum(0), JNum(-1), JNull} }

\* metadata of a candidate: missing, null, an object, a text, numbers
MetadataValues == {Undefined, JNull, JObj, JStr(1), JNum(7), JNum(0)}

ValidateCandidates ==
  { Profile(n, v, a, p, NoCustomFriction, NoEnvironment, m) :
      n \in TextValues, v \in {Undefined, JStr(1)}, a \in {JStr(0), JStr(1)},
      p \in ValidateParameters, m \in MetadataValues }

ValidateInit ==
  /\ sim = SimIdle
  /\ SlotInit /\ WrapInit /\ LabInit /\ InterceptionInit /\ HostInit
  /\ \E json \in ValidateCandidates :
       validation = [NoValidation EXCEPT !.json = json]

\* validateAlgorithm(json)
Validate ==
  /\ ~validation.called
  /\ validation' = [validation EXCEPT !.called = TRUE,
                                      !.result = validateAlgorithm(validation.json)]
  /\ UNCHANGED <<simVars, slotVars, wrapVars, labVars, iaVars, hostVars>>

ValidateNext == Validate

SpecValidate == ValidateInit /\ [][ValidateNext]_vars

(***************************************************************************)
(* analyzeInterception applied to players and trajectories                 *)
(***************************************************************************)
\* positions of the player, <<x, y>> in field units
Players == { <<0, 0>>, <<9, 12>>, <<30, 30>> }

\* the player's maximal speeds
MaxSpeeds == {4, 5}

\* positions of the ball now and along its trajectory
BallPoints == { <<6, 8>>, <<9, 12>>, <<12, 16>>, <<30, 40>>, <<48, 64>> }

\* the time of the i-th point of a trajectory, in three schedules:
\* 2, 5, 10, ... and 10, 12, 16, ... and 0, 5, 10, ...
PointTime(schedule, i) ==
  CASE schedule = "early" -> i * i + 1
    [] schedule = "late" -> 10 + i * (i - 1)
    [] schedule = "zero" -> 5 * (i - 1)

Schedules == {"early", "late"}

\* longest trajectory
MaxPathLen == 3

Paths ==
  UNION { [1..n -> BallPoints] : n \in 0..MaxPathLen }

\* the predictedPath with positions ps and the times of a schedule
PathAt(ps, schedule) ==
  [i \in 1..Len(ps) |->
     [x |-> Units(ps[i][1]), y |-> Units(ps[i][2]),
      t |-> Units(PointTime(schedule, i))]]

InterceptInit ==
  /\ sim = SimIdle
  /\ SlotInit /\ WrapInit /\ LabInit /\ ValidationInit /\ HostInit
  /\ \E p \in Players, ms \in MaxSpeeds, cur \in BallPoints, ts \in Schedules :
       \E ps \in Paths :
         ia = [NoAnalysis EXCEPT
                 !.playerX = Units(p[1]), !.playerY = Units(p[2]),
                 !.playerMaxSpeed = Units(ms),
                 !.ballTrajectory =
                    [currentPosition |-> [x |-> Units(cur[1]), y |-> Units(cur[2])],
                     predictedPath |-> PathAt(ps, ts)]]
  /\ fo = NoOptimal

\* analyzeInterception(playerX, playerY, playerMaxSpeed, ballTrajectory)
Analyze ==
  /\ ~ia.called
  /\ ia' = [ia EXCEPT !.called = TRUE,
                      !.result = analyzeInterception(ia.playerX, ia.playerY,
                                                     ia.playerMaxSpeed,
                                                     ia.ballTrajectory)]
  /\ UNCHANGED <<simVars, slotVars, wrapVars, labVars, valVars, fo, hostVars>>

InterceptNext == Analyze

SpecIntercept == InterceptInit /\ [][InterceptNext]_vars

(***************************************************************************)
(* findOptimalInterceptPoint applied to players and trajectories           *)
(***************************************************************************)
\* positions along the trajectory, the player's own among them
OptimalPoints == BallPoints \cup { <<0, 0>> }

OptimalPaths ==
  UNION { [1..n -> OptimalPoints] : n \in 0..MaxPathLen }

OptimalInit ==
  /\ sim = SimIdle
  /\ SlotInit /\ WrapInit /\ LabInit /\ ValidationInit /\ HostInit
  /\ ia = NoAnalysis
  /\ \E p \in Players, ms \in MaxSpeeds, ts \in Schedules \cup {"zero"} :
       \E ps \in OptimalPaths :
         fo = [NoOptimal EXCEPT
                 !.playerX = Units(p[1]), !.playerY = Units(p[2]),
                 !.playerMaxSpeed = Units(ms),
                 !.ballTrajectory =
                    [currentPosition |-> [x |-> Num(0), y |-> Num(0)],
                     predictedPath |-> PathAt(ps, ts)]]

\* findOptimalInterceptPoint(playerX, playerY, playerMaxSpeed, ballTrajectory)
FindOptimal ==
  /\ ~fo.called
  /\ fo' = [fo EXCEPT !.called = TRUE,
                      !.result = findOptimalInterceptPoint(fo.playerX, fo.playerY,
                                                           fo.playerMaxSpeed,
                                                           fo.ballTrajectory)]
  /\ UNCHANGED <<simVars, slotVars, wrapVars, labVars, valVars, ia, hostVars>>

OptimalNext == FindOptimal

SpecOptimal == OptimalInit /\ [][OptimalNext]_vars

(***************************************************************************)
(* TacticalFootball: the capture rotation                                  *)
(***************************************************************************)
\* the number of timer ticks
MaxTicks == 82

\* the number of events that are out of step: a timer tick while a capture
\* is still due, a capture that fails, an effect that finds no canvas
MaxIrregular == 1

\* lengths of the text toDataURL returns: empty, 'data:,', the largest
\* that is rejected and the smallest that is accepted
ScreenshotLengths == {0, 6, 1000, 1001}

\* the record of a step: the operation, the player and the screenshot it
\* was about
Step(op, playerId, screenshot) ==
  [op |-> op, playerId |-> playerId, screenshot |-> screenshot,
   outcome |-> NoOutcome, response |-> ErrorResponse(0), early |-> FALSE,
   report |-> NoTrace.last.report]

\* the outside world: nothing of the lab pages changes
Idle == UNCHANGED <<simVars, slotVars, wrapVars, labVars, valVars, iaVars>>

\* useEffect(() => { resetMatch(); }, []): a snapshot for every player
resetMatch ==
  /\ ~trace.mounted
  /\ playerKnowledge' = [id \in PlayerIds |->
                           Snapshot(CHOOSE p \in { allPlayers[i] : i \in 1..Len(allPlayers) } :
                                          p.id = id)]
  /\ trace' = [trace EXCEPT !.mounted = TRUE, !.last = Step("resetMatch", NoPlayer, Thrown)]
  /\ Idle
  /\ UNCHANGED <<hostScore, gameLoop, capVars, inFlight, mxVars>>

\* a capture is due: requested by a tick and not yet encoded
CaptureDue == pending # <<>> \/ pov # backgroundCapturePlayer

\* the callback of setInterval: the next player's view is to be rendered
Rotate ==
  /\ trace.mounted
  /\ trace.ticks < MaxTicks
  /\ CaptureDue => trace.irregular < MaxIrregular
  /\ currentCaptureIndex' = NextIndex(currentCaptureIndex)
  /\ backgroundCapturePlayer' = allPlayerIds[NextIndex(currentCaptureIndex) + 1]
  /\ trace' = [trace EXCEPT
                 !.ticks = @ + 1,
                 !.selected = Append(@, NextIndex(currentCaptureIndex)),
                 !.irregular = IF CaptureDue THEN @ + 1 ELSE @,
                 !.last = Step("rotate", allPlayerIds[NextIndex(currentCaptureIndex) + 1], Thrown)]
  /\ Idle
  /\ UNCHANGED <<playerKnowledge, hostScore, gameLoop, pov, pending, inFlight, mxVars>>

\* the effect of PlayerPOV after the view of another player was rendered:
\* onCanvasReady(player.id, canvas) when there is a canvas, which sets the
\* timeout of handleBackgroundCanvasReady
CanvasReady ==
  /\ backgroundCapturePlayer # NoPlayer
  /\ backgroundCapturePlayer \in DOMAIN playerKnowledge
  /\ pov # backgroundCapturePlayer
  /\ \E canvas \in BOOLEAN :
       /\ ~canvas => trace.irregular < MaxIrregular
       /\ pov' = backgroundCapturePlayer
       /\ pending' = IF canvas THEN Append(pending, backgroundCapturePlayer) ELSE pending
       /\ trace' = [trace EXCEPT
                      !.irregular = IF canvas THEN @ ELSE @ + 1,
                      !.last = Step("canvasReady", backgroundCapturePlayer, Thrown)]
  /\ Idle
  /\ UNCHANGED <<playerKnowledge, hostScore, gameLoop, currentCaptureIndex,
                 backgroundCapturePlayer, inFlight, mxVars>>

\* the callback of the oldest timeout of handleBackgroundCanvasReady
Capture ==
  /\ pending # <<>>
  /\ \E screenshot \in {Thrown} \cup { DataURL(n, trace.shots + 1) : n \in ScreenshotLengths } :
       /\ ~(~screenshot.throws /\ screenshot.length > 1000) => trace.irregular < MaxIrregular
       /\ pending' = Tail(pending)
       /\ IF IsScreenshot(screenshot)
          THEN /\ playerKnowledge' = AddScreenshot(playerKnowledge, Head(pending), screenshot)
               /\ trace' = [trace EXCEPT
                              !.shots = @ + 1,
                              !.arrived[Head(pending)] = Append(@, screenshot),
                              !.last = Step("capture", Head(pending), screenshot)]
          ELSE /\ playerKnowledge' = playerKnowledge
               /\ trace' = [trace EXCEPT
                              !.irregular = @ + 1, !.failed = @ + 1,
                              !.last = Step("capture", Head(pending), screenshot)]
  /\ Idle
  /\ UNCHANGED <<hostScore, gameLoop, currentCaptureIndex, backgroundCapturePlayer,
                 pov, inFlight, mxVars>>

CaptureNext ==
  \/ resetMatch
  \/ Rotate
  \/ CanvasReady
  \/ Capture

SpecCapture == Init /\ [][CaptureNext]_vars

(***************************************************************************)
(* TacticalFootball: the three lanes together                              *)
(***************************************************************************)
LaneTicks == 2
MaxPredictions == 3
MaxDecisions == 2

\* what can happen to a decision request
Outcomes ==
  { Outcome(TRUE, FALSE, TRUE, 200, "json", Text("Attacking"), Text("why")),
    Outcome(TRUE, TRUE, FALSE, 200, "json", Text("Attacking"), Text("why")),
    Outcome(TRUE, TRUE, TRUE, 401, "json", Text("Attacking"), Text("why")),
    Outcome(TRUE, TRUE, TRUE, 200, "none", Text("Attacking"), Text("why")),
    Outcome(TRUE, TRUE, TRUE, 200, "text", Text("Attacking"), Text("why")),
    Outcome(TRUE, TRUE, TRUE, 200, "json", Absent, Text("why")),
    Outcome(TRUE, TRUE, TRUE, 200, "json", Text("Attacking"), Text("why")),
    Outcome(TRUE, TRUE, TRUE, 200, "json", Text("Balanced"), Absent) }

\* Date.now(), as the number of the response
Clock == trace.resolved + 1

\* the capture lane for the first ticks of the match, every capture in time
\* and good
LaneRotate == trace.ticks < LaneTicks /\ ~CaptureDue /\ Rotate
LaneCanvasReady == CanvasReady /\ trace'.irregular = trace.irregular
LaneCapture == Capture /\ trace'.irregular = trace.irregular

\* the per-tick lane: the predictions of every agent are replaced
PredictTick ==
  /\ trace.mounted
  /\ trace.predicted < MaxPredictions
  /\ playerKnowledge' = Predicted(playerKnowledge, trace.predicted + 1)
  /\ trace' = [trace EXCEPT !.predicted = @ + 1,
                            !.last = Step("predict", NoPlayer, Thrown)]
  /\ Idle
  /\ UNCHANGED <<hostScore, gameLoop, capVars, inFlight, mxVars>>

\* the decision lane: a request for an agent that has a capture is sent and
\* not waited for; early: it is sent before the first prediction tick
Dispatch ==
  /\ trace.dispatched < MaxDecisions
  /\ \E playerId \in DOMAIN playerKnowledge :
       /\ Len(playerKnowledge[playerId].fovScreenshots) > 0
       /\ inFlight' = inFlight \cup {[playerId |-> playerId, n |-> trace.dispatched + 1,
                                        early |-> trace.predicted = 0]}
       /\ trace' = [trace EXCEPT !.dispatched = @ + 1,
                                 !.last = Step("dispatch", playerId, Thrown)]
  /\ Idle
  /\ UNCHANGED <<playerKnowledge, hostScore, gameLoop, capVars, mxVars>>

\* a request in flight is answered by the route, in any order
Resolve ==
  /\ \E request \in inFlight, outcome \in Outcomes :
       \E response \in {POST(outcome, Clock)} :
         /\ playerKnowledge' = Resolved(playerKnowledge, request.playerId, response)
         /\ inFlight' = inFlight \ {request}
         /\ trace' = [trace EXCEPT
                        !.resolved = @ + 1,
                        !.last = [op |-> "resolve", playerId |-> request.playerId,
                                  screenshot |-> Thrown, outcome |-> outcome,
                                  response |-> response, early |-> request.early,
                                  report |-> NoTrace.last.report]]
  /\ Idle
  /\ UNCHANGED <<hostScore, gameLoop, capVars, mxVars>>

DecisionNext ==
  \/ resetMatch
  \/ LaneRotate
  \/ LaneCanvasReady
  \/ LaneCapture
  \/ PredictTick
  \/ Dispatch
  \/ Resolve

SpecDecision == Init /\ [][DecisionNext]_vars

(***************************************************************************)
(* Properties of the simulators (SpecSim)                                  *)
(***************************************************************************)
\* 0 <= x <= FIELD_WIDTH and 0 <= y <= FIELD_HEIGHT
InField(p) ==
  /\ Ge(p.x, Num(0)) /\ Le(p.x, Units(FIELD_WIDTH))
  /\ Ge(p.y, Num(0)) /\ Le(p.y, Units(FIELD_HEIGHT))

\* C1: for every validated profile and every initial ball state inside the
\* field, every point a simulator (custom or default) has recorded lies in
\* the field rectangle [0, 1000] x [0, 600].
C1_PointsInsideField ==
  \A i \in 1..Len(sim.path) : InField(sim.path[i])

\* ceil(a / b) of two positive fixed-point numbers
CeilDiv(a, b) == (a + b - 1) \div b

\* C2: for every validated profile and every initial state, the custom
\* simulator never records more than ceil(maxPredictionTime / timeStep)
\* points.
C2_AtMostCeilPoints ==
  sim.fn = "custom" =>
    Len(sim.path) <= CeilDiv(sim.algo.parameters.maxPredictionTime.v,
                             sim.algo.parameters.timeStep.v)

(***************************************************************************)
(* Properties of the wrapper (SpecWrap)                                    *)
(***************************************************************************)
\* the trajectory the default predictor computes for the ball of the call
DefaultForCall ==
  predictBallTrajectoryDefault(Units(call.ball[1]), Units(call.ball[2]),
                               Units(call.ball[3]), Units(call.ball[4]))

\* C3: whatever profile the slot holds, a call of the wrapper returns a
\* trajectory and never lets an exception of the custom simulator escape;
\* when the custom simulator threw, the trajectory returned is the default
\* predictor's for the same arguments.
C3_WrapperCatches ==
  call.made =>
    /\ call.outcome = "returned"
    /\ call.customThrew => call.result = DefaultForCall

\* a call was made while the slot's profile made the custom simulator throw
C3_Witness ==
  /\ call.made /\ ~call.algo.isNull /\ call.customThrew
  /\ call.outcome = "returned"
  /\ Len(call.result.predictedPath) > 0

\* C4: when the active custom profile produces non-finite values during
\* integration, the call returns the default predictor's trajectory, so no
\* trajectory a call returns contains a non-finite point.
C4_NoNonFiniteResult ==
  call.made =>
    /\ ~HasNaN(call.result.predictedPath)
    /\ call.customNaN => call.result = DefaultForCall

(***************************************************************************)
(* Properties of the editor (SpecLab)                                      *)
(***************************************************************************)
\* the editor's text parses to a profile that validateAlgorithm accepts
TextIsValid ==
  /\ jsonText.kind = "json"
  /\ validateAlgorithm(jsonText.value).valid

\* C5: a step changes the slot or the page's active profile only when the
\* editor's text parses and validateAlgorithm returns valid = true, and then
\* it sets both to the parsed profile; a text that fails to parse or fails a
\* rule leaves both exactly as they were.
C5_SubmitAllOrNothing ==
  [][ /\ ~TextIsValid => UNCHANGED <<store, customAlgorithm>>
      /\ (store' # store \/ customAlgorithm' # customAlgorithm) =>
           /\ TextIsValid
           /\ store' = JSONStringify(jsonText.value)
           /\ customAlgorithm' = SomeAlgorithm(jsonText.value) ]_vars

\* a submission was rejected while an earlier profile stays active
C5_Witness ==
  /\ Len(errors) > 0
  /\ ~TextIsValid
  /\ ~customAlgorithm.isNull
  /\ store = JSONStringify(customAlgorithm.algo)

(***************************************************************************)
(* Properties of validateAlgorithm (SpecValidate)                          *)
(***************************************************************************)
\* a non-empty text
IsText(j) == j.k = "string" /\ j.v # 0

\* a number in [lo, hi]
InRange(j, lo, hi) == j.k = "number" /\ lo <= j.v /\ j.v <= hi

\* the rules of a valid profile, the parameter rules taken as failed when
\* there are no parameters
RulesHold(json) ==
  /\ IsText(json.name) /\ IsText(json.version) /\ IsText(json.author)
  /\ json.parameters.present
  /\ InRange(json.parameters.friction, 0, Scale)
  /\ InRange(json.parameters.timeStep, 1, Scale)
  /\ json.parameters.maxPredictionTime.k = "number"
  /\ json.parameters.maxPredictionTime.v > 0
  /\ InRange(json.parameters.bounceEnergyLoss, 0, Scale)
  /\ json.parameters.stopThreshold.k = "number"
  /\ json.parameters.stopThreshold.v >= 0
  /\ json.metadata.k = "object"

\* C6: validateAlgorithm returns valid = true exactly when name, version and
\* author are non-empty text, the five parameters are numbers within their
\* ranges and a metadata object is present; and valid is true if and only if
\* the error list is empty.
C6_ValidIffRules ==
  validation.called =>
    /\ validation.result.valid <=> RulesHold(validation.json)
    /\ validation.result.valid <=> validation.result.errors = <<>>

\* one message per failed rule, in rule order; a candidate without
\* parameters fails the rule that asks for them, and the five parameter rules
\* are asked only of parameters that exist
RuleErrors(json) ==
  PushIf(~IsText(json.name), ErrName)
    \o PushIf(~IsText(json.version), ErrVersion)
    \o PushIf(~IsText(json.author), ErrAuthor)
    \o (IF ~json.parameters.present THEN <<ErrParameters>>
        ELSE PushIf(~InRange(json.parameters.friction, 0, Scale), ErrFriction)
               \o PushIf(~InRange(json.parameters.timeStep, 1, Scale), ErrTimeStep)
               \o PushIf(~(/\ json.parameters.maxPredictionTime.k = "number"
                           /\ json.parameters.maxPredictionTime.v > 0),
                         ErrMaxPredictionTime)
               \o PushIf(~InRange(json.parameters.bounceEnergyLoss, 0, Scale),
                         ErrBounceEnergyLoss)
               \o PushIf(~(/\ json.parameters.stopThreshold.k = "number"
                           /\ json.parameters.stopThreshold.v >= 0),
                         ErrStopThreshold))
    \o PushIf(json.metadata.k # "object", ErrMetadata)

\* C7: validateAlgorithm does not stop at the first failure: its error list
\* holds one message per failed rule, in rule order, so a candidate that
\* fails k rules gets k messages; a candidate with friction 1.5 and
\* timeStep 0 gets at least two distinct messages and is not valid.
C7_OneErrorPerFailedRule ==
  validation.called =>
    /\ validation.result.errors = RuleErrors(validation.json)
    /\ ( /\ validation.json.parameters.present
         /\ validation.json.parameters.friction = JNum(Scale + Scale \div 2)
         /\ validation.json.parameters.timeStep = JNum(0) )
       => /\ ~validation.result.valid
          /\ \E i, j \in 1..Len(validation.result.errors) :
               validation.result.errors[i] # validation.result.errors[j]

(***************************************************************************)
(* Properties of analyzeInterception (SpecIntercept)                       *)
(***************************************************************************)
\* the player's distance to the ball's current position
CurrentDistance ==
  Distance(ia.ballTrajectory.currentPosition.x, ia.ballTrajectory.currentPosition.y,
           ia.playerX, ia.playerY)

\* the player is within the capture radius of the ball's current position
AtBall == CurrentDistance.v <= INTERCEPT_RADIUS * Scale

\* the player's distance to the i-th point of the trajectory
PointDistance(i) ==
  Distance(ia.ballTrajectory.predictedPath[i].x, ia.ballTrajectory.predictedPath[i].y,
           ia.playerX, ia.playerY)

\* the speed the player needs to be at the i-th point in time
PointSpeed(i) == Div(PointDistance(i), ia.ballTrajectory.predictedPath[i].t)

\* the i-th point is reachable in time and beyond the capture radius
Qualifies(i) ==
  /\ PointSpeed(i).v <= ia.playerMaxSpeed.v
  /\ PointDistance(i).v > INTERCEPT_RADIUS * Scale

\* the i-th point is the earliest one that qualifies
Earliest(i) ==
  /\ i \in 1..Len(ia.ballTrajectory.predictedPath)
  /\ Qualifies(i)
  /\ \A j \in 1..(i - 1) : ~Qualifies(j)

\* C8: whenever the player is within the capture radius (15) of the ball's
\* current position, the result is the immediate interception: possible, at
\* the current position, time 0, speed 0, confidence 1, whatever the points
\* of the trajectory are.
C8_AtBallIsImmediate ==
  (ia.called /\ AtBall) =>
    /\ ia.result.isPossible
    /\ ia.result.interceptPoint =
         SomePoint(ia.ballTrajectory.currentPosition.x,
                   ia.ballTrajectory.currentPosition.y)
    /\ ia.result.timeToReach = Some(Num(0))
    /\ ia.result.requiredSpeed = Some(Num(0))
    /\ ia.result.confidence = Units(1)

\* C9: for a player outside the capture radius of the current position, the
\* result is the earliest point of the trajectory with distance / t <=
\* maxSpeed and distance > 15, with confidence max(0, 1 - speed / maxSpeed);
\* when no point qualifies, nothing is possible: point, time and speed are
\* null and the confidence is 0.
C9_EarliestQualifyingPoint ==
  (ia.called /\ ~AtBall) =>
    /\ \A i \in 1..Len(ia.ballTrajectory.predictedPath) :
         Earliest(i) =>
           /\ ia.result.isPossible
           /\ ia.result.interceptPoint =
                SomePoint(ia.ballTrajectory.predictedPath[i].x,
                          ia.ballTrajectory.predictedPath[i].y)
           /\ ia.result.timeToReach = Some(ia.ballTrajectory.predictedPath[i].t)
           /\ ia.result.requiredSpeed = Some(PointSpeed(i))
           /\ ia.result.confidence =
                Max0(Num(Scale - TruncDiv(PointSpeed(i).v * Scale, ia.playerMaxSpeed.v)))
    /\ (\A i \in 1..Len(ia.ballTrajectory.predictedPath) : ~Qualifies(i)) =>
         /\ ~ia.result.isPossible
         /\ ia.result.interceptPoint.isNull
         /\ ia.result.timeToReach.isNull
         /\ ia.result.requiredSpeed.isNull
         /\ ia.result.confidence = Num(0)

\* a player away from the ball whose earliest qualifying point is not the
\* first point of the trajectory
C9_Witness ==
  /\ ia.called /\ ~AtBall
  /\ \E i \in 2..Len(ia.ballTrajectory.predictedPath) :
       /\ Earliest(i)
       /\ PointSpeed(i).v < ia.playerMaxSpeed.v
       /\ ia.result.isPossible
       /\ ia.result.confidence.v > 0

\* C10: the test of reachability is inclusive: when the earliest point
\* beyond the capture radius that the player can reach needs exactly the
\* player's maximal speed (player at the origin with maximal speed 5, point
\* (30, 40) at t = 10), the result is possible with confidence 0.
C10_BoundaryIsFeasible ==
  (ia.called /\ ~AtBall) =>
    \A i \in 1..Len(ia.ballTrajectory.predictedPath) :
      ( /\ PointSpeed(i) = ia.playerMaxSpeed
        /\ PointDistance(i).v > INTERCEPT_RADIUS * Scale
        /\ \A j \in 1..(i - 1) : ~Qualifies(j) )
      => /\ ia.result.isPossible
         /\ ia.result.requiredSpeed = Some(ia.playerMaxSpeed)
         /\ ia.result.confidence = Num(0)

\* Scenario C: the player at the origin with maximal speed 5, and the first
\* point of the trajectory is (30, 40) at t = 10
C10_Witness ==
  /\ ia.called /\ ~AtBall
  /\ ia.playerX = Num(0) /\ ia.playerY = Num(0) /\ ia.playerMaxSpeed = Units(5)
  /\ Len(ia.ballTrajectory.predictedPath) >= 1
  /\ ia.ballTrajectory.predictedPath[1] =
       [x |-> Units(30), y |-> Units(40), t |-> Units(10)]
  /\ ia.result.isPossible
  /\ ia.result.confidence = Num(0)

(***************************************************************************)
(* Properties of findOptimalInterceptPoint (SpecOptimal)                   *)
(***************************************************************************)
\* the player's distance to the i-th point of the trajectory
OptDistance(i) ==
  Distance(fo.ballTrajectory.predictedPath[i].x, fo.ballTrajectory.predictedPath[i].y,
           fo.playerX, fo.playerY)

\* the i-th point qualifies for interception: the speed it needs is at most
\* the player's and it lies beyond the capture radius
OptQualifies(i) ==
  /\ Le(Div(OptDistance(i), fo.ballTrajectory.predictedPath[i].t), fo.playerMaxSpeed)
  /\ Gt(OptDistance(i), Units(INTERCEPT_RADIUS))

\* t * (distance + 1) of the i-th point: the smaller, the larger its score
OptCost(i) == fo.ballTrajectory.predictedPath[i].t.v * (OptDistance(i).v + Scale)

\* the i-th point has the largest score among the qualifying points and is
\* the earliest such point
OptBest(i) ==
  /\ OptQualifies(i)
  /\ \A j \in 1..Len(fo.ballTrajectory.predictedPath) :
       OptQualifies(j) =>
         \/ OptCost(i) < OptCost(j)
         \/ OptCost(i) = OptCost(j) /\ i <= j

\* C11: findOptimalInterceptPoint returns the position of the qualifying
\* point (speed needed <= maxSpeed and distance > 15) with the largest score
\* (1/t) * (1/(distance + 1)), the earliest on a tie; it returns null exactly
\* when no point qualifies; and it never returns a point with t = 0.
C11_BestQualifyingPoint ==
  fo.called =>
    /\ \A i \in 1..Len(fo.ballTrajectory.predictedPath) :
         OptBest(i) =>
           fo.result = SomePoint(fo.ballTrajectory.predictedPath[i].x,
                                 fo.ballTrajectory.predictedPath[i].y)
    /\ fo.result.isNull <=>
         \A i \in 1..Len(fo.ballTrajectory.predictedPath) : ~OptQualifies(i)
    /\ \A i \in 1..Len(fo.ballTrajectory.predictedPath) :
         (/\ fo.ballTrajectory.predictedPath[i].t = Num(0)
          /\ \A j \in 1..Len(fo.ballTrajectory.predictedPath) :
               j # i => (fo.ballTrajectory.predictedPath[j].x # fo.ballTrajectory.predictedPath[i].x
                         \/ fo.ballTrajectory.predictedPath[j].y # fo.ballTrajectory.predictedPath[i].y))
         => fo.result # SomePoint(fo.ballTrajectory.predictedPath[i].x,
                                  fo.ballTrajectory.predictedPath[i].y)

(***************************************************************************)
(* Scenarios and steps of the custom simulator (SpecSim)                   *)
(***************************************************************************)
\* the custom simulator runs Scenario A: the ball starts in the middle of
\* the field with velocity (10, 0)
InScenarioA ==
  /\ sim.fn = "custom" /\ sim.pc # "thrown"
  /\ sim.algo = ScenarioA
  /\ sim.ballX = Units(500) /\ sim.ballY = Units(300)
  /\ sim.ballVx = Units(10) /\ sim.ballVy = Num(0)

\* 10, 5, 2.5, 1.25, 0.625, 0.3125 for k = 0..5
ScenarioASpeed(k) == (10 * Scale) \div (2 ^ k)

\* C12: in Scenario A (friction 0.5, velocity (10, 0), stopThreshold 0.4,
\* timeStep 1) the speeds at the start of the successive steps are 10, 5,
\* 2.5, 1.25, 0.625, 0.3125, and the run stops with exactly 6 points.
C12_ScenarioA ==
  InScenarioA =>
    /\ Len(sim.path) <= 6
    /\ sim.pc = "loop" =>
         /\ Len(sim.path) < 6
         /\ Speed(sim.vx, sim.vy) = Num(ScenarioASpeed(Len(sim.path)))
    /\ sim.pc \in {"exit", "returned"} => Len(sim.path) = 6
    /\ \A k \in 1..Len(sim.path) :
         k <= 5 =>
           Speed(sim.path[k].velocity.vx, sim.path[k].velocity.vy)
             = Num(ScenarioASpeed(k))

\* Scenario A has run to its end
C12_Witness ==
  /\ InScenarioA
  /\ sim.pc = "returned"
  /\ Len(sim.path) = 6
  /\ sim.path[5].velocity.vx = Num(ScenarioASpeed(5))

\* a step of the custom simulator that records a point
RecordsPoint ==
  /\ sim.fn = "custom" /\ sim'.fn = "custom"
  /\ Len(sim'.path) = Len(sim.path) + 1

\* 1 - bounceEnergyLoss of the running profile
KeptShare == Add(Units(1), Neg(ToNumber(sim.algo.parameters.bounceEnergyLoss)))

\* C13: on a step in which the ball crosses a boundary on an axis, that
\* axis's velocity component changes sign and its magnitude is multiplied by
\* (1 - bounceEnergyLoss), the position is clamped to the boundary, and the
\* other axis's component is left as the step's friction and wind made it.
C13_BounceKeepsComplement ==
  [][ RecordsPoint =>
        /\ Outside(Moved(sim).x, FIELD_WIDTH) =>
             /\ sim'.vx = Neg(Mul(Moved(sim).vx, KeptShare))
             /\ sim'.x = Clamp(Moved(sim).x, FIELD_WIDTH)
             /\ ~Outside(Moved(sim).y, FIELD_HEIGHT) => sim'.vy = Moved(sim).vy
        /\ Outside(Moved(sim).y, FIELD_HEIGHT) =>
             /\ sim'.vy = Neg(Mul(Moved(sim).vy, KeptShare))
             /\ sim'.y = Clamp(Moved(sim).y, FIELD_HEIGHT)
             /\ ~Outside(Moved(sim).x, FIELD_WIDTH) => sim'.vx = Moved(sim).vx ]_vars

\* the ball is 2 units from the right boundary and the step carries it on
\* with velocity (+8, 0), under bounceEnergyLoss 0.8
InScenarioB ==
  /\ sim.fn = "custom" /\ sim.pc = "loop"
  /\ sim.x = Units(FIELD_WIDTH - 2)
  /\ Moved(sim).vx = Units(8) /\ Moved(sim).vy = Num(0)
  /\ sim.algo.parameters.bounceEnergyLoss = JNum((8 * Scale) \div 10)

\* C14: Scenario B: after the step that crosses the right boundary the
\* recorded x velocity is -6.4 and the recorded x position is the boundary,
\* 1000.
C14_ScenarioB ==
  [][ (InScenarioB /\ RecordsPoint) =>
        /\ sim'.path[Len(sim'.path)].velocity.vx = Num(-((64 * Scale) \div 10))
        /\ sim'.path[Len(sim'.path)].x = Units(FIELD_WIDTH)
        /\ sim'.path[Len(sim'.path)].velocity.vy = Num(0) ]_vars

\* the first point of a run that started 2 units from the right boundary
\* with velocity (+8, 0) and lost nothing to friction
C14_Witness ==
  /\ sim.fn = "custom"
  /\ sim.ballX = Units(FIELD_WIDTH - 2) /\ sim.ballVx = Units(8) /\ sim.ballVy = Num(0)
  /\ sim.algo.parameters.friction = JNum(Scale)
  /\ ~sim.algo.customFriction.present /\ ~sim.algo.environment.present
  /\ Len(sim.path) >= 1
  /\ sim.path[1].x = Units(FIELD_WIDTH)
  /\ sim.path[1].velocity.vx = Num(-((64 * Scale) \div 10))

(***************************************************************************)
(* Properties of the returned trajectories (SpecSim)                       *)
(***************************************************************************)
\* the BallTrajectory a simulator that has returned hands to its caller
Returned == IF sim.fn = "custom" THEN CustomResult(sim) ELSE DefaultResult(sim)

\* the time step of the running simulator, as a double
StepOfRun ==
  IF sim.fn = "custom" THEN DoubleOf(sim.algo.parameters.timeStep.v)
  ELSE DefaultTimeStep

\* k * d in double arithmetic, for a small natural number k
DblTimes(k, d) ==
  LET p0 == d[1] * k
      p1 == d[2] * k + (p0 \div Limb)
      p2 == d[3] * k + (p1 \div Limb)
  IN  DblRound(<<p0 % Limb, p1 % Limb, p2>>)

\* the t of the point before the k-th one, 0 before the first
TimeBefore(k) == IF k = 1 THEN DblZero ELSE Returned.predictedPath[k - 1].t

\* timeToStop and landingPosition are those of the last recorded point
EndsAtLastPoint ==
  /\ Len(Returned.predictedPath) > 0
  /\ Returned.timeToStop = Returned.predictedPath[Len(Returned.predictedPath)].t
  /\ Returned.landingPosition =
       [x |-> Returned.predictedPath[Len(Returned.predictedPath)].x,
        y |-> Returned.predictedPath[Len(Returned.predictedPath)].y]

\* C15 (as stated): in every returned trajectory the k-th point has
\* t = k * timeStep > 0, so t increases strictly; timeToStop is the t of
\* the last recorded point and landingPosition is its (x, y).
C15_TimesAreMultiples ==
  sim.pc = "returned" =>
    /\ \A k \in 1..Len(Returned.predictedPath) :
         /\ Returned.predictedPath[k].t = DblTimes(k, StepOfRun)
         /\ DblLt(TimeBefore(k), Returned.predictedPath[k].t)
    /\ EndsAtLastPoint

\* C15 (amended): in every returned trajectory the t of a point is the t of
\* the point before it plus timeStep, added in double arithmetic from 0, so
\* t is positive and increases strictly; timeToStop is the t of the last
\* recorded point and landingPosition is its (x, y).
C15_TimesAccumulate ==
  sim.pc = "returned" =>
    /\ \A k \in 1..Len(Returned.predictedPath) :
         /\ Returned.predictedPath[k].t = DblAdd(TimeBefore(k), StepOfRun)
         /\ DblLt(TimeBefore(k), Returned.predictedPath[k].t)
    /\ EndsAtLastPoint

\* a returned trajectory whose eighth t is not 8 * timeStep
C15_Witness ==
  /\ sim.pc = "returned"
  /\ Len(Returned.predictedPath) >= 8
  /\ Returned.predictedPath[8].t # DblTimes(8, StepOfRun)
  /\ Returned.timeToStop = sim.path[Len(sim.path)].t

(***************************************************************************)
(* The default physics (SpecSim)                                           *)
(***************************************************************************)
\* the run is one under the default physics: the default predictor, or the
\* custom simulator with the default parameters
DefaultPhysics ==
  \/ sim.fn = "default"
  \/ sim.fn = "custom" /\ sim.algo = DefaultAlgorithm

\* the speed of the k-th recorded point, the initial speed for k = 0
PointSpeedAt(k) ==
  IF k = 0 THEN Speed(sim.ballVx, sim.ballVy)
  ELSE Speed(sim.path[k].velocity.vx, sim.path[k].velocity.vy)

\* the k-th recorded point lies on a boundary, as a point does after a bounce
OnBoundary(k) ==
  \/ sim.path[k].x.v = 0 \/ sim.path[k].x.v = FIELD_WIDTH * Scale
  \/ sim.path[k].y.v = 0 \/ sim.path[k].y.v = FIELD_HEIGHT * Scale

\* C16: under the default physics (friction 0.94) the speeds of successive
\* trajectory points do not increase, from the start of the trajectory up
\* to the first step on which the ball bounces off a boundary.
C16_SpeedsDoNotIncrease ==
  DefaultPhysics =>
    \A k \in 1..Len(sim.path) :
      (\A j \in 1..k : ~OnBoundary(j)) =>
        PointSpeedAt(k).v <= PointSpeedAt(k - 1).v

\* a run of the default predictor that has recorded points of decreasing,
\* positive speed without a bounce
C16_Witness ==
  /\ sim.fn = "default"
  /\ Len(sim.path) >= 3
  /\ \A j \in 1..3 : ~OnBoundary(j)
  /\ PointSpeedAt(3).v < PointSpeedAt(2).v
  /\ PointSpeedAt(3).v > 0

\* the trajectory the default predictor returns for the ball of the run
DefaultForRun ==
  predictBallTrajectoryDefault(sim.ballX, sim.ballY, sim.ballVx, sim.ballVy)

\* C20: run with the default parameters (friction 0.94, timeStep 0.1,
\* maxPredictionTime 3.0, bounceEnergyLoss 0.8, stopThreshold 0.5), the
\* custom simulator returns, for every initial ball state, the predicted
\* path and the landing position the default predictor returns, so that the
\* benchmark's baseline row has error 0.
C20_DefaultParametersMatch ==
  (sim.fn = "custom" /\ sim.algo = DefaultAlgorithm /\ sim.pc = "returned") =>
    /\ CustomResult(sim).predictedPath = DefaultForRun.predictedPath
    /\ CustomResult(sim).landingPosition = DefaultForRun.landingPosition


(***************************************************************************)
(* Properties of the cached profile (SpecWrap)                             *)
(***************************************************************************)
\* the last operation called getCustomAlgorithm
Loads ==
  loaded.fn \in {"predictBallTrajectory", "isCustomAlgorithmActive",
                 "getActiveAlgorithmName"}

\* C17: the slot is re-read at most once per polling interval: any two
\* reads of the slot by getCustomAlgorithm are more than CHECK_INTERVAL ms
\* apart, and a call that does not read the slot returns the profile that
\* was cached when it began.
C17_ReadOncePerInterval ==
  /\ \A i, j \in 1..Len(loaded.reads) :
       i < j => loaded.reads[j] - loaded.reads[i] > CHECK_INTERVAL
  /\ (Loads /\ ~loaded.read) => loaded.returned = loaded.cached

\* the slot was read twice, CHECK_INTERVAL + 1 ms apart, and a later call
\* returned the cached profile without reading
C17_Witness ==
  /\ Len(loaded.reads) = 2
  /\ loaded.reads[2] - loaded.reads[1] = CHECK_INTERVAL + 1
  /\ loaded.fn = "predictBallTrajectory" /\ ~loaded.read
  /\ ~loaded.returned.isNull /\ loaded.returned = loaded.cached

\* C18: once a valid profile has been submitted and stored in the slot, the
\* next call of predictBallTrajectory, isCustomAlgorithmActive or
\* getActiveAlgorithmName works with that profile: a call made while the
\* slot holds a profile gets that profile from getCustomAlgorithm.
C18_UsedAtOnce ==
  (Loads /\ loaded.slot.kind = "json") =>
    /\ loaded.returned = SomeAlgorithm(loaded.slot.value)
    /\ loaded.active
    /\ loaded.name = loaded.slot.value.name

\* the operation began with the slot empty or holding a text that
\* JSON.parse rejects
SlotEmptyOrBroken == loaded.slot.kind \in {"none", "garbage"}

\* C19: clearCustomAlgorithm empties the slot, and a call made while the
\* slot is empty (after clearCustomAlgorithm, until the next submission) or
\* holds a text that does not parse gets null from getCustomAlgorithm:
\* isCustomAlgorithmActive() is false, getActiveAlgorithmName() is 'Default
\* Physics' and predictBallTrajectory returns the default predictor's
\* trajectory.
C19_ClearedMeansDefault ==
  /\ [][ (loaded' # loaded /\ loaded'.fn = "clearCustomAlgorithm") =>
            store' = NoItem ]_vars
  /\ [] ( (Loads /\ SlotEmptyOrBroken) =>
            /\ loaded.returned = NullAlgorithm
            /\ ~loaded.active
            /\ loaded.name = DefaultPhysicsName
            /\ loaded.fn = "predictBallTrajectory" =>
                 /\ call.made /\ ~call.usedCustom
                 /\ call.result = DefaultForCall )

\* clearCustomAlgorithm replaced a cached profile, and the call right after
\* it, made before the slot was due for a re-read, predicted with the
\* default predictor
C19_Witness ==
  /\ loaded.fn = "predictBallTrajectory" /\ ~loaded.read
  /\ loaded.cleared /\ ~loaded.dropped.isNull
  /\ loaded.slot = NoItem
  /\ call.made /\ ~call.usedCustom /\ call.result = DefaultForCall

(***************************************************************************)
(* MXCreativeConsole: input reports and key events                         *)
(***************************************************************************)
MaxPayload == 2
MaxEvents == 5
MaxReports == 3

GRID_REPORT == 19
PAGING_REPORT == 17

\* this.HID_MAP
HID_MAP == [val \in 1..9 |-> val - 1] @@ (417 :> 9) @@ (418 :> 10)

\* the headers of the two reports; null stands for any byte
AnyByte == -1
GridHeader == <<255, 2, 0, AnyByte, 1>>
PagingHeader == <<255, 11, 0>>

\* _validateHeader(view, bytes)
validateHeader(view, bytes) ==
  /\ Len(view) >= Len(bytes)
  /\ \A i \in 1..Len(bytes) : bytes[i] # AnyByte => view[i] = bytes[i]

\* currentFrameKeys.add(key): a Set keeps the order of insertion
SetAdd(keys, key) ==
  IF \E i \in 1..Len(keys) : keys[i] = key THEN keys ELSE Append(keys, key)

\* the elements of a Set
Elements(keys) == { keys[i] : i \in 1..Len(keys) }

\* the loop over the bytes of a grid report from byte i (counted from 1)
RECURSIVE GridKeys(_, _, _)
GridKeys(view, i, keys) ==
  IF i > Len(view) THEN keys
  ELSE IF view[i] = 0 THEN keys
  ELSE GridKeys(view, i + 1,
                IF view[i] \in DOMAIN HID_MAP THEN SetAdd(keys, HID_MAP[view[i]]) ELSE keys)

\* the loop over the 16-bit values of a paging report, read as grid keys too
RECURSIVE PagingKeys(_, _, _)
PagingKeys(view, i, keys) ==
  IF i > Len(view) \/ i + 1 > Len(view) THEN keys
  ELSE IF view[i] * 256 + view[i + 1] = 0 THEN keys
  ELSE PagingKeys(view, i + 2,
                  IF view[i] * 256 + view[i + 1] \in DOMAIN HID_MAP
                  THEN SetAdd(keys, HID_MAP[view[i] * 256 + view[i + 1]]) ELSE keys)

\* whether _handleInput goes on to the diff: a known report with its header
Parses(reportId, view) ==
  \/ reportId = GRID_REPORT /\ validateHeader(view, GridHeader)
  \/ reportId = PAGING_REPORT /\ validateHeader(view, PagingHeader)

\* currentFrameKeys of a report that parses
FrameKeys(reportId, view) ==
  IF reportId = GRID_REPORT THEN GridKeys(view, Len(GridHeader) + 1, <<>>)
  ELSE PagingKeys(view, Len(PagingHeader) + 1, <<>>)

\* relevantPreviousKeys
RelevantPreviousKeys(keys, reportId) ==
  SelectSeq(keys, LAMBDA k : IF reportId = GRID_REPORT THEN k <= 8 ELSE k > 8)

KeyEvent(type, key) == [type |-> type, key |-> key]

\* the keys released: those of relevantPreviousKeys that are not in the frame
Released(keys, reportId, frame) ==
  SelectSeq(RelevantPreviousKeys(keys, reportId), LAMBDA k : k \notin Elements(frame))

\* the keys pressed: those of the frame that are not active
Pressed(keys, frame) == SelectSeq(frame, LAMBDA k : k \notin Elements(keys))

\* the reports a console or another program may send: one of the headers,
\* then up to MaxPayload bytes
Bytes == {0, 1, 161}
Payloads == UNION { [1..n -> Bytes] : n \in 0..MaxPayload }
Views == { header \o payload : header \in {<<255, 2, 0, 7, 1>>, PagingHeader},
                                payload \in Payloads }
ReportIds == {GRID_REPORT, PAGING_REPORT, 18}

\* connect(), reconnect(): the listener is attached
connect ==
  /\ ~device
  /\ Len(emitted) < MaxEvents
  /\ device' = TRUE
  /\ emitted' = Append(emitted, KeyEvent("connected", AnyByte))
  /\ trace' = [trace EXCEPT !.last = Step("connect", NoPlayer, Thrown)]
  /\ Idle
  /\ UNCHANGED <<playerKnowledge, hostScore, gameLoop, capVars, inFlight, activeKeys>>

\* disconnect()
disconnect ==
  /\ device
  /\ Len(emitted) < MaxEvents
  /\ device' = FALSE
  /\ activeKeys' = <<>>
  /\ emitted' = Append(emitted, KeyEvent("disconnected", AnyByte))
  /\ trace' = [trace EXCEPT !.last = Step("disconnect", NoPlayer, Thrown)]
  /\ Idle
  /\ UNCHANGED <<playerKnowledge, hostScore, gameLoop, capVars, inFlight>>

\* _handleInput(event)
handleInput ==
  /\ device
  /\ trace.reports < MaxReports
  /\ \E reportId \in ReportIds, view \in Views :
       /\ IF Parses(reportId, view)
          THEN \E frame \in {FrameKeys(reportId, view)} :
                 \E released \in {Released(activeKeys, reportId, frame)} :
                   \E kept \in {SelectSeq(activeKeys, LAMBDA k : k \notin Elements(released))} :
                     /\ activeKeys' = kept \o Pressed(kept, frame)
                     /\ emitted' = emitted
                                     \o [i \in 1..Len(released) |-> KeyEvent("keyup", released[i])]
                                     \o [i \in 1..Len(Pressed(kept, frame)) |->
                                           KeyEvent("keydown", Pressed(kept, frame)[i])]
          ELSE UNCHANGED <<activeKeys, emitted>>
       /\ trace' = [trace EXCEPT
                      !.reports = @ + 1,
                      !.last = [Step("handleInput", NoPlayer, Thrown) EXCEPT
                                  !.report = [reportId |-> reportId, data |-> view]]]
  /\ Idle
  /\ UNCHANGED <<playerKnowledge, hostScore, gameLoop, capVars, inFlight, device>>

ConsoleNext ==
  \/ connect
  \/ disconnect
  \/ handleInput

SpecConsole == Init /\ [][ConsoleNext]_vars

(***************************************************************************)
(* TacticalFootball: goals and the score                                   *)
(***************************************************************************)
MaxGoals == 3
MaxLocks == 2

\* the score with a goal more for the team: { ...score, [team]: score[team] + 1 }
OneMore(score, team) == [score EXCEPT ![team] = @ + 1]

\* the updater of triggerGoal: currentScore of every snapshot replaced
WithScore(prev, newScore) == [id \in DOMAIN prev |-> [prev[id] EXCEPT !.currentScore = newScore]]

\* the render after a change of state: useCallback makes a new update, which
\* closes over the score of this render, when lockedPlayersUI.size is not
\* the one the running update was made with, and keeps the running one
\* otherwise
Render(loop, score) ==
  IF loop.lockedUI # loop.lockedSize
  THEN [loop EXCEPT !.score = score, !.lockedSize = loop.lockedUI]
  ELSE loop

\* a frame of update in which the ball crosses a goal line: triggerGoal(team)
triggerGoal ==
  /\ trace.mounted
  /\ gameLoop.matchState = "PLAYING"
  /\ trace.goals < MaxGoals
  /\ \E team \in {"red", "blue"} :
       \E newScore \in {OneMore(gameLoop.score, team)} :
         /\ hostScore' = newScore
         /\ playerKnowledge' = WithScore(playerKnowledge, newScore)
         /\ gameLoop' = Render([gameLoop EXCEPT !.matchState = "RESETTING",
                                                !.lockedRef = 0, !.lockedUI = 0],
                               newScore)
         /\ trace' = [trace EXCEPT !.goals = @ + 1, !.scorer = team,
                                   !.last = Step("triggerGoal", NoPlayer, Thrown)]
  /\ Idle
  /\ UNCHANGED <<capVars, inFlight, mxVars>>

\* the timeout of triggerGoal: play goes on
ResetDone ==
  /\ gameLoop.matchState = "RESETTING"
  /\ gameLoop' = [gameLoop EXCEPT !.matchState = "PLAYING"]
  /\ trace' = [trace EXCEPT !.last = Step("resetDone", NoPlayer, Thrown)]
  /\ Idle
  /\ UNCHANGED <<playerKnowledge, hostScore, capVars, inFlight, mxVars>>

\* assignPlayerToSector: the candidate is locked, a player that was not
\* locked (more) or one that was
Lock ==
  /\ trace.mounted
  /\ \E more \in BOOLEAN :
       /\ IF more THEN gameLoop.lockedRef < MaxLocks ELSE gameLoop.lockedRef > 0
       /\ \E size \in {gameLoop.lockedRef + (IF more THEN 1 ELSE 0)} :
            gameLoop' = Render([gameLoop EXCEPT !.lockedRef = size, !.lockedUI = size],
                               hostScore)
  /\ trace' = [trace EXCEPT !.last = Step("lock", NoPlayer, Thrown)]
  /\ Idle
  /\ UNCHANGED <<playerKnowledge, hostScore, capVars, inFlight, mxVars>>

\* a frame of update in which the timer of a lock runs out
Unlock ==
  /\ gameLoop.matchState = "PLAYING"
  /\ gameLoop.lockedRef > 0
  /\ \E size \in {gameLoop.lockedRef - 1} :
       gameLoop' = Render([gameLoop EXCEPT
                             !.lockedRef = size,
                             !.lockedUI = IF size = 0 \/ size # gameLoop.lockedSize
                                          THEN size ELSE @],
                          hostScore)
  /\ trace' = [trace EXCEPT !.last = Step("unlock", NoPlayer, Thrown)]
  /\ Idle
  /\ UNCHANGED <<playerKnowledge, hostScore, capVars, inFlight, mxVars>>

\* setSimSpeed or setIsPaused: a new update is made
Control ==
  /\ trace.mounted
  /\ gameLoop.score # hostScore
  /\ gameLoop' = [gameLoop EXCEPT !.score = hostScore]
  /\ trace' = [trace EXCEPT !.last = Step("control", NoPlayer, Thrown)]
  /\ Idle
  /\ UNCHANGED <<playerKnowledge, hostScore, capVars, inFlight, mxVars>>

ScoreNext ==
  \/ resetMatch
  \/ triggerGoal
  \/ ResetDone
  \/ Lock
  \/ Unlock
  \/ Control

SpecScore == Init /\ [][ScoreNext]_vars

(***************************************************************************)
(* TacticalFootball: completions that arrive late                          *)
(***************************************************************************)
MaxLate == 2

\* a player of a match that is over
Stranger == <<"r", TEAM_SIZE>>

\* the players a late completion is for
LateIds == {allPlayerIds[1], allPlayerIds[TEAM_SIZE + 2], Stranger}

\* what has happened to the request of a late response
LateOutcomes ==
  { Outcome(TRUE, FALSE, TRUE, 200, "json", Text("Attacking"), Text("why")),
    Outcome(TRUE, TRUE, TRUE, 200, "json", Text("Attacking"), Text("why")) }

\* the timeout of handleBackgroundCanvasReady set for any player, before or
\* after the snapshots are made: the updater is called with a screenshot
LateCapture ==
  /\ trace.shots < MaxLate
  /\ \E playerId \in LateIds :
       \E screenshot \in {DataURL(1001, trace.shots + 1)} :
         /\ IsScreenshot(screenshot)
         /\ playerKnowledge' = AddScreenshot(playerKnowledge, playerId, screenshot)
         /\ trace' = [trace EXCEPT !.shots = @ + 1,
                                   !.last = Step("capture", playerId, screenshot)]
  /\ Idle
  /\ UNCHANGED <<hostScore, gameLoop, capVars, inFlight, mxVars>>

\* the response of a request sent for any player arrives
LateResult ==
  /\ trace.resolved < MaxLate
  /\ \E playerId \in LateIds, outcome \in LateOutcomes :
       \E response \in {POST(outcome, Clock)} :
         /\ playerKnowledge' = Resolved(playerKnowledge, playerId, response)
         /\ trace' = [trace EXCEPT
                        !.resolved = @ + 1,
                        !.last = [op |-> "resolve", playerId |-> playerId,
                                  screenshot |-> Thrown, outcome |-> outcome,
                                  response |-> response, early |-> FALSE,
                                  report |-> NoTrace.last.report]]
  /\ Idle
  /\ UNCHANGED <<hostScore, gameLoop, capVars, inFlight, mxVars>>

LateNext ==
  \/ resetMatch
  \/ LateCapture
  \/ LateResult

SpecLate == Init /\ [][LateNext]_vars

(***************************************************************************)
(* Properties of the capture rotation (SpecCapture)                        *)
(***************************************************************************)
\* the last k elements of a sequence (all of it when it is shorter)
LastOf(seq, k) ==
  IF Len(seq) <= k THEN seq ELSE SubSeq(seq, Len(seq) - k + 1, Len(seq))

AgentCount == Len(allPlayerIds)

\* C22: the rotation index lies in [0, agentCount), each timer tick
\* advances it by one modulo agentCount, and any agentCount consecutive
\* ticks select every agent exactly once.
C22_RotationIsRoundRobin ==
  /\ currentCaptureIndex \in 0..(AgentCount - 1)
  /\ trace.ticks = Len(trace.selected)
  /\ trace.ticks > 0 => currentCaptureIndex = trace.selected[trace.ticks]
  /\ \A k \in 1..trace.ticks :
       trace.selected[k] = (IF k = 1 THEN 1 ELSE trace.selected[k - 1] + 1) % AgentCount
  /\ \A k \in 1..(trace.ticks - AgentCount + 1) :
       { trace.selected[j] : j \in k..(k + AgentCount - 1) } = 0..(AgentCount - 1)

\* the index has wrapped around twice and is back at the first agent
C22_Witness ==
  /\ trace.ticks = 2 * AgentCount
  /\ currentCaptureIndex = 0
  /\ backgroundCapturePlayer = allPlayerIds[1]

\* C23: at most one capture is in flight: a capture that was requested has
\* been encoded before the next one is requested, under every interleaving
\* of the timer, the canvas-ready effect and the capture timeout.
C23_OneCaptureInFlight == Len(pending) <= 1

\* the capture came back empty or too short, or the encoding threw
CaptureFailed(screenshot) == screenshot.throws \/ screenshot.length <= 1000

\* C24: a capture that comes back empty or corrupt, or whose encoding
\* throws, is skipped: the step changes no snapshot and nothing of the
\* rotation, only its own timeout is gone.
C24_FailedCaptureIsSkipped ==
  [][ (trace' # trace /\ trace'.last.op = "capture"
       /\ CaptureFailed(trace'.last.screenshot)) =>
        /\ playerKnowledge' = playerKnowledge
        /\ pending' = Tail(pending)
        /\ UNCHANGED <<hostScore, gameLoop, currentCaptureIndex,
                       backgroundCapturePlayer, pov, inFlight>>
        /\ trace'.arrived = trace.arrived ]_vars

\* after a capture failed the rotation went on and a later capture of
\* another agent was appended to its buffer
C24_Witness ==
  /\ trace.failed = 1
  /\ trace.last.op = "capture" /\ ~CaptureFailed(trace.last.screenshot)
  /\ Len(playerKnowledge[trace.last.playerId].fovScreenshots) > 0
  /\ playerKnowledge[trace.last.playerId].fovScreenshots[
       Len(playerKnowledge[trace.last.playerId].fovScreenshots)] = trace.last.screenshot
  /\ \E id \in PlayerIds :
       trace.arrived[id] = <<>> /\ trace.ticks > AgentCount


(***************************************************************************)
(* Properties of the decision lane (SpecDecision)                          *)
(***************************************************************************)
\* the step is the arrival of a response
Resolves == trace'.resolved = trace.resolved + 1

\* the step folds a decision result in: the response that arrives is OK and
\* names a strategy
Folds ==
  /\ Resolves
  /\ trace'.last.response.status \in 200..299
  /\ trace'.last.response.selectedStrategy.k = "string"

\* the entry of the log for the result folded in by the step
Thought ==
  [timestamp |-> trace'.last.response.timestamp,
   previousStrategy |-> playerKnowledge[trace'.last.playerId].myCurrentStrategy,
   selectedStrategy |-> trace'.last.response.selectedStrategy.v,
   reasoning |-> trace'.last.response.reasoning.v]

\* teammateStrategies after the step is teammateStrategies before it with
\* the strategy of the entry of playerId, if there is one, set
CopyUpdated(before, after, playerId, strategy) ==
  /\ Len(after) = Len(before)
  /\ \A i \in 1..Len(before) :
       /\ after[i].playerId = before[i].playerId
       /\ after[i].strategy = IF before[i].playerId = playerId THEN strategy
                              ELSE before[i].strategy

\* C25: when a decision result for agent X is folded in, X's
\* myCurrentStrategy becomes the selected strategy, one entry {timestamp,
\* previousStrategy, selectedStrategy, reasoning} is appended to X's log,
\* X's entry in teammateStrategies is updated in every snapshot of X's team
\* and nothing of teammateStrategies changes in the other team; in every
\* other case the log of an agent stays as it is
C25_FoldUpdatesAgentAndTeam ==
  [][ /\ Folds =>
           /\ playerKnowledge'[trace'.last.playerId].myCurrentStrategy =
                 trace'.last.response.selectedStrategy.v
           /\ playerKnowledge'[trace'.last.playerId].strategyThoughts =
                 Append(playerKnowledge[trace'.last.playerId].strategyThoughts, Thought)
           /\ \A id \in DOMAIN playerKnowledge \ {trace'.last.playerId} :
                /\ playerKnowledge'[id].strategyThoughts =
                      playerKnowledge[id].strategyThoughts
                /\ IF TeamOf(id) = TeamOf(trace'.last.playerId)
                   THEN /\ CopyUpdated(playerKnowledge[id].teammateStrategies,
                                       playerKnowledge'[id].teammateStrategies,
                                       trace'.last.playerId,
                                       trace'.last.response.selectedStrategy.v)
                        /\ \E i \in 1..Len(playerKnowledge[id].teammateStrategies) :
                             playerKnowledge[id].teammateStrategies[i].playerId =
                                trace'.last.playerId
                   ELSE playerKnowledge'[id].teammateStrategies =
                           playerKnowledge[id].teammateStrategies
      /\ ~Folds =>
           \A id \in DOMAIN playerKnowledge :
              playerKnowledge'[id].strategyThoughts = playerKnowledge[id].strategyThoughts
    ]_vars

\* a second decision of an agent has been folded in: its log holds both, the
\* second replaced the strategy the first had selected, and a team-mate
\* holds the new strategy
C25_Witness ==
  /\ trace.last.op = "resolve"
  /\ trace.last.playerId \in DOMAIN playerKnowledge
  /\ \E log \in {playerKnowledge[trace.last.playerId].strategyThoughts} :
       /\ Len(log) = 2
       /\ log[2].previousStrategy = log[1].selectedStrategy
       /\ log[2].selectedStrategy # log[1].selectedStrategy
       /\ playerKnowledge[trace.last.playerId].myCurrentStrategy = log[2].selectedStrategy
       /\ \E id \in DOMAIN playerKnowledge \ {trace.last.playerId} :
            \E i \in 1..Len(playerKnowledge[id].teammateStrategies) :
               /\ playerKnowledge[id].teammateStrategies[i].playerId = trace.last.playerId
               /\ playerKnowledge[id].teammateStrategies[i].strategy = log[2].selectedStrategy

\* C26: the arrival of a response for agent X, in whatever order with the
\* other requests in flight, the prediction ticks and the captures, changes
\* the predictions and the captures of no agent, and of an agent other than
\* X nothing but the strategy of its entry for X in teammateStrategies
C26_ResolutionIsIsolated ==
  [][ Resolves =>
        /\ DOMAIN playerKnowledge' = DOMAIN playerKnowledge
        /\ \A id \in DOMAIN playerKnowledge :
             /\ playerKnowledge'[id].ballPrediction = playerKnowledge[id].ballPrediction
             /\ playerKnowledge'[id].fovScreenshots = playerKnowledge[id].fovScreenshots
             /\ id # trace'.last.playerId =>
                  /\ [playerKnowledge'[id] EXCEPT
                        !.teammateStrategies = playerKnowledge[id].teammateStrategies] =
                     playerKnowledge[id]
                  /\ \/ playerKnowledge'[id].teammateStrategies =
                           playerKnowledge[id].teammateStrategies
                     \/ CopyUpdated(playerKnowledge[id].teammateStrategies,
                                    playerKnowledge'[id].teammateStrategies,
                                    trace'.last.playerId,
                                    trace'.last.response.selectedStrategy.v)
    ]_vars

\* a request sent for X before the first prediction tick has been answered
\* after three ticks while another request is in flight: a team-mate holds
\* the predictions of the third tick, its captures, and the new label of X
C26_Witness ==
  /\ trace.last.op = "resolve"
  /\ trace.last.early
  /\ trace.predicted >= 3
  /\ inFlight # {}
  /\ \E id \in DOMAIN playerKnowledge \ {trace.last.playerId} :
       /\ playerKnowledge[id].ballPrediction = trace.predicted
       /\ Len(playerKnowledge[id].fovScreenshots) > 0
       /\ \E i \in 1..Len(playerKnowledge[id].teammateStrategies) :
            /\ playerKnowledge[id].teammateStrategies[i].playerId = trace.last.playerId
            /\ playerKnowledge[id].teammateStrategies[i].strategy = "Attacking"
       /\ \E request \in inFlight : request.playerId = id

\* the request of the response that arrives has failed (no API key, no
\* answer from upstream, a status that is not OK, no output or an output
\* that is not JSON) or its response is malformed (it names no strategy)
FailedOrMalformed ==
  \/ ~trace'.last.outcome.body
  \/ ~trace'.last.outcome.key
  \/ ~trace'.last.outcome.fetched
  \/ trace'.last.outcome.upstream \notin 200..299
  \/ trace'.last.outcome.content \in {"none", "text", "null"}
  \/ trace'.last.outcome.selectedStrategy.k # "string"

\* myCurrentStrategy, the log and teammateStrategies of every agent
Strategies(knowledge) ==
  [id \in DOMAIN knowledge |->
     <<knowledge[id].myCurrentStrategy, knowledge[id].strategyThoughts,
       knowledge[id].teammateStrategies>>]

Arrives == trace'.shots = trace.shots + 1 \/ Resolves

\* C28: a screenshot or a decision result that arrives for a player that
\* has no snapshot leaves the snapshots as they are, and no entry is made
\* for the player
C28_UnknownAgentIsDiscarded ==
  [][ (Arrives /\ trace'.last.playerId \notin DOMAIN playerKnowledge) =>
         /\ playerKnowledge' = playerKnowledge
         /\ trace'.last.playerId \notin DOMAIN playerKnowledge'
    ]_vars

\* the snapshots of the match are there, a decision result had arrived for
\* a player and now a screenshot has, for a player that is not of the match
C28_Witness ==
  /\ trace.mounted
  /\ trace.resolved >= 1
  /\ trace.last.op = "capture"
  /\ ~trace.last.screenshot.throws
  /\ trace.last.playerId = Stranger
  /\ DOMAIN playerKnowledge = PlayerIds

(***************************************************************************)
(* Properties of the score (SpecScore)                                     *)
(***************************************************************************)
\* C29: every goal raises the score of the team that scored by one and
\* leaves the score of the other team as it was, no step lowers a score,
\* and after a goal currentScore of every snapshot is the score of the host
C29_ScoreIsExact ==
  [][ /\ trace'.goals = trace.goals + 1 =>
           /\ hostScore' = OneMore(hostScore, trace'.scorer)
           /\ \A id \in DOMAIN playerKnowledge' :
                playerKnowledge'[id].currentScore = hostScore'
      /\ hostScore'.red >= hostScore.red
      /\ hostScore'.blue >= hostScore.blue
    ]_vars

(***************************************************************************)
(* Properties of the key events (SpecConsole)                              *)
(***************************************************************************)
\* the keydown and keyup events of a key, in the order they were dispatched
EventsOf(key) ==
  SelectSeq(emitted, LAMBDA e : e.key = key /\ e.type \in {"keydown", "keyup"})

\* whether a key is of the type of a report: grid keys 0..8, paging keys
\* above
OfType(key, reportId) == IF reportId = GRID_REPORT THEN key <= 8 ELSE key > 8

\* C30: for every key keydown and keyup alternate, starting with keydown;
\* after a grid or paging report with a valid header the active keys of its
\* type are the keys the report lists, the active keys of the other type
\* are as before and no event is for a key of the other type; a report with
\* an invalid header or an unknown id changes nothing and emits nothing
C30_KeyEventsAreConsistent ==
  /\ [][ trace'.reports = trace.reports + 1 =>
           IF Parses(trace'.last.report.reportId, trace'.last.report.data)
           THEN /\ { k \in Elements(activeKeys') : OfType(k, trace'.last.report.reportId) } =
                   Elements(FrameKeys(trace'.last.report.reportId, trace'.last.report.data))
                /\ { k \in Elements(activeKeys') : ~OfType(k, trace'.last.report.reportId) } =
                   { k \in Elements(activeKeys) : ~OfType(k, trace'.last.report.reportId) }
                /\ \A i \in Len(emitted) + 1..Len(emitted') :
                     OfType(emitted'[i].key, trace'.last.report.reportId)
           ELSE activeKeys' = activeKeys /\ emitted' = emitted
       ]_vars
  /\ [](\A key \in 0..10 :
          \A i \in 1..Len(EventsOf(key)) :
             EventsOf(key)[i].type = IF i % 2 = 1 THEN "keydown" ELSE "keyup")
====
